---- MODULE Spec2Model ----
(***************************************************************************)
(* Model of the guided art-appreciation assistant                          *)
(* (src/app/components/ViewerAssistant.tsx): the four-step orchestrator,   *)
(* its per-object and per-candidate dialogue ledgers, candidate            *)
(* regeneration, viewpoint recording, final synthesis and the session      *)
(* store (localStorage record list + IndexedDB thumbnails).                *)
(*                                                                         *)
(* A text is a sequence of tokens (strings); the empty text is << >>.      *)
(* The component's React state is the record st; a handler that awaits     *)
(* keeps the values of the render it was created in, so an operation in    *)
(* flight carries that render's state as its closure cl.                   *)
(***************************************************************************)
EXTENDS Integers, Sequences, FiniteSets, TLC

\* ------------------------------------------------------------------ bounds
MaxOps      == 2   \* model calls started in one behaviour
MaxStoreOps == 1   \* storage operations of one kind started in one behaviour
MaxInFlight == 2   \* asynchronous operations pending at the same time
MaxTurns    == 1   \* follow-up user turns typed into one ledger
MaxReplyLen == 4   \* tokens of a model reply handed to a text function
MaxUpstreamLen == 2 \* tokens of an upstream reply to the endpoint
MaxRequestLen == 23 \* non-system messages of a request to the endpoint
MaxCandidates == 3 \* elements of a candidates array in a model reply
MaxObjectsLen == 3 \* characters of an objects text typed into the Step 1 form

\* --------------------------------------------------------- program constants
MAX_SESSIONS == 20

\* ------------------------------------------------------------- text helpers
EmptyText == << >>

IsWs(tok) == tok \in {" ", "\n"}

RECURSIVE TrimLeft(_)
TrimLeft(s) == IF s # << >> /\ IsWs(Head(s)) THEN TrimLeft(Tail(s)) ELSE s

RECURSIVE TrimRight(_)
TrimRight(s) ==
  IF s # << >> /\ IsWs(s[Len(s)]) THEN TrimRight(SubSeq(s, 1, Len(s) - 1)) ELSE s

\* String.prototype.trim
Trim(s) == TrimLeft(TrimRight(s))

RECURSIVE SeqToSet(_)
SeqToSet(s) == IF s = << >> THEN {} ELSE {Head(s)} \cup SeqToSet(Tail(s))

RECURSIVE SelectSeqBy(_, _)
\* s.filter(x => x \in keep)
SelectSeqBy(s, keep) ==
  IF s = << >> THEN << >>
  ELSE (IF Head(s) \in keep THEN <<Head(s)>> ELSE << >>) \o SelectSeqBy(Tail(s), keep)

\* a list copied without new Set(...): repeated labels stay
KeepAll(s) == s

RECURSIVE Dedupe(_)
\* [...new Set(list)]: first occurrences, in order
Dedupe(s) ==
  IF s = << >> THEN << >>
  ELSE LET init == Dedupe(SubSeq(s, 1, Len(s) - 1))
           x    == s[Len(s)]
       IN  IF x \in SeqToSet(init) THEN init ELSE Append(init, x)

NoDup(s) == \A i, j \in 1..Len(s) : s[i] = s[j] => i = j

\* a || b on texts (the empty text is falsy)
OrText(a, b) == IF a # EmptyText THEN a ELSE b

RECURSIVE Flatten(_)
\* the concatenation of a sequence of texts
Flatten(ss) == IF ss = << >> THEN << >> ELSE Head(ss) \o Flatten(Tail(ss))

\* s.indexOf(tok), 0 when absent
IndexOf(s, tok) ==
  IF \E i \in 1..Len(s) : s[i] = tok
  THEN CHOOSE i \in 1..Len(s) : s[i] = tok /\ \A j \in 1..(i - 1) : s[j] # tok
  ELSE 0

\* s.lastIndexOf(tok), 0 when absent
LastIndexOf(s, tok) ==
  IF \E i \in 1..Len(s) : s[i] = tok
  THEN CHOOSE i \in 1..Len(s) : s[i] = tok /\ \A j \in (i + 1)..Len(s) : s[j] # tok
  ELSE 0

\* ------------------------------------------------------------------ messages
Msg(role, content, hidden) == [role |-> role, content |-> content, hidden |-> hidden]

SystemMsg(content)    == Msg("system", content, FALSE)
UserMsg(content)      == Msg("user", content, FALSE)
AssistantMsg(content) == Msg("assistant", content, FALSE)

\* --------------------------------------------- tokens of a model reply
\* "FENCE" is a code-fence marker (three backticks), "json" the word after it, "{" and "}" braces.
\* "q=a" stands for the JSON member "question":"a", "q=FENCE" for a question
\* whose value holds a fence marker, "q= " for one whose value is blank,
\* "m" for any other member.  "[" "]" bracket a candidates array whose
\* elements are candidate tokens (CandTokens).
Fence == "FENCE"

QTokens == {"q=a", "q=FENCE", "q= "}

QValue(tok) ==
  CASE tok = "q=a"   -> <<"a">>
    [] tok = "q=FENCE" -> <<Fence>>
    [] tok = "q= "   -> <<" ">>
    [] OTHER         -> << >>

NonWs(s) == SelectSeq(s, LAMBDA tok : ~IsWs(tok))

\* JSON.parse of a brace-to-brace span of a dialogue reply: the object's
\* question member, when the span is an object of at most one member
JsonQuestion(span) ==
  LET body == NonWs(SubSeq(span, 2, Len(span) - 1))
  IN  IF body = << >> \/ body = <<"m">>
        THEN [ok |-> TRUE, has |-> FALSE, q |-> << >>]
      ELSE IF Len(body) = 1 /\ body[1] \in QTokens
        THEN [ok |-> TRUE, has |-> TRUE, q |-> QValue(body[1])]
      ELSE [ok |-> FALSE, has |-> FALSE, q |-> << >>]

\* tryParse inside normalizeAssistantText; << >> stands for null
tryParse(s) ==
  LET first == IndexOf(s, "{")
      last  == LastIndexOf(s, "}")
  IN  IF first = 0 \/ last = 0 \/ last <= first THEN << >>
      ELSE LET obj == JsonQuestion(SubSeq(s, first, last))
           IN  IF obj.ok /\ obj.has /\ Trim(obj.q) # << >> THEN Trim(obj.q) ELSE << >>

\* t.match(/FENCE(?:json)?\s*([\s\S]*?)\s*FENCE/i): the interior of the first
\* fenced block, or t itself when there is no closed fence
FenceInside(t) ==
  LET open == IndexOf(t, Fence)
      rest == IF open = 0 THEN << >> ELSE SubSeq(t, open + 1, Len(t))
      shut == IndexOf(rest, Fence)
  IN  IF open = 0 \/ shut = 0 THEN t
      ELSE LET mid  == SubSeq(rest, 1, shut - 1)
               body == IF mid # << >> /\ Head(mid) = "json" THEN Tail(mid) ELSE mid
           IN  Trim(body)

\* inside.match(/"question"\s*:\s*"([^"]+)"/)
RegexQuestion(inside) ==
  LET hits == SelectSeq(inside, LAMBDA tok : tok \in QTokens)
  IN  IF hits = << >> THEN << >> ELSE QValue(hits[1])

normalizeAssistantText(raw) ==
  LET t      == Trim(raw)
      inside == FenceInside(t)
      parsed == OrText(tryParse(inside), tryParse(t))
      q2     == RegexQuestion(inside)
  IN  IF parsed # << >> THEN parsed
      ELSE IF q2 # << >> THEN Trim(q2)
      ELSE Trim(SelectSeq(inside, LAMBDA tok : tok # Fence))

\* ------------------------------------------------------------ objects text
\* tokens of the objects field: a token is one character.  "JINBUTSU" is the
\* two-character word U+4EBA U+7269 (person), "HITO" the character U+4EBA,
\* "DARE" the phrase "(kono) JINBUTSU wa dare (desu ka)" of line 123, which
\* line 120 has rewritten to "HITO-WA-DARE" before line 123 looks for it,
\* "TOUTEN" the ideographic comma U+3001, "FWCOMMA" the full-width comma U+FF0C
Delimiters == {"TOUTEN", "FWCOMMA", ",", "\n"}

normalizeObjectsForPrompt(raw) ==
  LET s == Trim(raw)
  IN  [i \in 1..Len(s) |->
         CASE s[i] = "JINBUTSU" -> "HITO"
           [] s[i] = "DARE"     -> "HITO-WA-DARE"
           [] OTHER             -> s[i]]

RECURSIVE SplitOn(_, _)
\* String.prototype.split on the delimiter class
SplitOn(s, cur) ==
  IF s = << >> THEN <<cur>>
  ELSE IF Head(s) \in Delimiters THEN <<cur>> \o SplitOn(Tail(s), << >>)
  ELSE SplitOn(Tail(s), Append(cur, Head(s)))

RECURSIVE MapTrim(_)
MapTrim(ss) == IF ss = << >> THEN << >> ELSE <<Trim(Head(ss))>> \o MapTrim(Tail(ss))

splitObjects(raw) == SelectSeq(MapTrim(SplitOn(raw, << >>)), LAMBDA seg : Len(seg) > 0)

S2ObjectCard(label) == [label |-> label, completed |-> FALSE]

CardsOf(objectsText) ==
  LET objectList == splitObjects(normalizeObjectsForPrompt(objectsText))
  IN  [i \in 1..Len(objectList) |-> S2ObjectCard(objectList[i])]

\* ------------------------------------------------- ledgers (Record<string, ChatMessage[]>)
\* An object's own string keys keep their insertion order, so a ledger map is
\* a sequence of entries [key, msgs] with distinct keys.
HasKey(d, k) == \E i \in 1..Len(d) : d[i].key = k

\* d[k] || []
Get(d, k) ==
  IF HasKey(d, k) THEN d[CHOOSE i \in 1..Len(d) : d[i].key = k].msgs ELSE << >>

\* { ...d, [k]: msgs }
Put(d, k, msgs) ==
  IF HasKey(d, k)
  THEN [i \in 1..Len(d) |-> IF d[i].key = k THEN [key |-> k, msgs |-> msgs] ELSE d[i]]
  ELSE Append(d, [key |-> k, msgs |-> msgs])

Keys(d) == {d[i].key : i \in 1..Len(d)}

\* Object.values(d).forEach((msgs) => all.push(...msgs))
AllMessages(d) == Flatten([i \in 1..Len(d) |-> d[i].msgs])

\* ----------------------------------------------------------- prompt builders
\* a kickoff whose user turn is shown in the chat
ShownKickoffForObject(imp, obj) ==
  << Msg("system", <<"STEP2-SYSTEM">>, TRUE),
     Msg("user", <<"IMPRESSION:">> \o imp \o <<"OBJECT:">> \o obj \o <<"ASK-ONE">>, FALSE) >>

buildStep2KickoffForObject(imp, obj) ==
  << Msg("system", <<"STEP2-SYSTEM">>, TRUE),
     Msg("user", <<"IMPRESSION:">> \o imp \o <<"OBJECT:">> \o obj \o <<"ASK-ONE">>, TRUE) >>

TranscriptLine(m) ==
  <<(IF m.role = "user" THEN "User:" ELSE "Assistant:")>> \o m.content

RECURSIVE JoinLines(_)
JoinLines(ls) ==
  IF ls = << >> THEN << >>
  ELSE IF Len(ls) = 1 THEN Head(ls)
  ELSE Head(ls) \o <<"\n">> \o JoinLines(Tail(ls))

Transcript(msgs) ==
  LET shown == SelectSeq(msgs, LAMBDA m : m.role # "system")
  IN  JoinLines([i \in 1..Len(shown) |-> TranscriptLine(shown[i])])

buildStep2SummarizeMessages(s2Msgs) ==
  << SystemMsg(<<"SUMMARIZER-SYSTEM">>),
     UserMsg(OrText(Transcript(s2Msgs), <<"(NO-LOG)">>)) >>

buildStep3ChatKickoff(imp, step2Sum, cand) ==
  << Msg("system", <<"STEP3-SYSTEM">>, TRUE),
     Msg("user",
         <<"IMPRESSION:">> \o imp \o <<"STEP2-SUMMARY:">> \o OrText(step2Sum, <<"(NO-SUMMARY)">>)
           \o <<"CHOSEN:">> \o cand.label \o <<"ELEMENT:">> \o cand.element
           \o <<"LOCATION:">> \o cand.location \o <<"EVIDENCE:">> \o cand.evidence
           \o <<"ASK-ONE">>,
         TRUE) >>

buildFinalMessages(s1I, s1O, s2S, s3S) ==
  << SystemMsg(<<"EDITOR-SYSTEM">>),
     UserMsg(<<"INTUITION:">> \o s1I \o <<"OBSERVATION:">> \o s1O
               \o <<"MEANING:">> \o s2S \o <<"EXTENSION:">> \o s3S \o <<"INTEGRATE">>) >>

RECURSIVE SortBySavedAtDesc(_)
\* savedViews.slice().sort((a, b) => b.savedAt - a.savedAt): a stable sort
SortBySavedAtDesc(vs) ==
  IF vs = << >> THEN << >>
  ELSE LET rest == SortBySavedAtDesc(Tail(vs))
           v    == Head(vs)
           k    == Cardinality({i \in 1..Len(rest) : rest[i].savedAt > v.savedAt})
       IN  SubSeq(rest, 1, k) \o <<v>> \o SubSeq(rest, k + 1, Len(rest))

SavedViewBlock(v) ==
  <<"- TARGET:">> \o v.label \o <<"LOCATION:">> \o v.location \o <<"ELEMENT:">> \o v.element
    \o <<"EVIDENCE:">> \o v.evidence
    \o (IF Trim(v.summary) # << >> THEN <<"SUMMARY:">> \o Trim(v.summary)
        ELSE <<"SUMMARY:", "(UNRECORDED)">>)

buildStep3SummarizeFromSavedViewsMessages(savedViews) ==
  LET sorted == SortBySavedAtDesc(savedViews)
      lines  == IF Len(savedViews) > 0
                THEN JoinLines([i \in 1..Len(sorted) |-> SavedViewBlock(sorted[i])])
                ELSE <<"(NO-SAVED-VIEWS)">>
  IN  << SystemMsg(<<"SAVED-VIEWS-SUMMARIZER-SYSTEM">>), UserMsg(lines) >>

LabelsOf(list) == [i \in 1..Len(list) |-> list[i].label]

buildStep3CandidateMessages(step1Objects, step2Summary, excludedLabels, recordedViews) ==
  LET excludedSection ==
        IF Len(excludedLabels) > 0
        THEN <<"[ALREADY-SHOWN]">>
               \o Flatten([i \in 1..Len(excludedLabels) |-> <<"-">> \o excludedLabels[i]])
        ELSE << >>
      recordedSection ==
        IF Len(recordedViews) > 0
        THEN <<"[RECORDED]">>
               \o Flatten([i \in 1..Len(recordedViews) |->
                    <<"-">> \o recordedViews[i].label \o <<"/">> \o recordedViews[i].location
                      \o <<"/">> \o recordedViews[i].element \o <<"/">> \o recordedViews[i].evidence
                      \o (IF recordedViews[i].summary # << >>
                          THEN <<"/SUMMARY:">> \o recordedViews[i].summary ELSE << >>)])
        ELSE << >>
  IN  << SystemMsg(<<"CANDIDATE-SYSTEM">>),
         UserMsg(<<"[STEP1-OBJECTS]">> \o step1Objects
                   \o <<"[STEP2-SUMMARY]">> \o OrText(step2Summary, <<"(NO-SUMMARY)">>)
                   \o excludedSection \o recordedSection \o <<"[OUTPUT]">>) >>

\* ------------------------------------------------------- candidate parser
\* A candidate token of a reply stands for one element of the candidates
\* array: "c:X" is an element with label X and the three other fields set,
\* "c:X/noev" the same without its evidence field, "c:JINBUTSU" and "c:HITO"
\* elements whose label is the word for person, "c:X/blank" an element
\* with label X whose evidence field is a blank.
CandTokens == {"c:X", "c:Y", "c:Z", "c:X/noev", "c:X/blank", "c:JINBUTSU", "c:HITO"}

\* the element has the four members label, element, location and evidence
HasFourFields(tok) == tok # "c:X/noev"

\* String(c?.f ?? "") of the four fields of one element
CoercedFields(tok) ==
  [label    |-> CASE tok \in {"c:X", "c:X/noev", "c:X/blank"} -> <<"X">>
                  [] tok = "c:Y"        -> <<"Y">>
                  [] tok = "c:Z"        -> <<"Z">>
                  [] tok = "c:JINBUTSU" -> <<"JINBUTSU">>
                  [] tok = "c:HITO"     -> <<"HITO">>
                  [] OTHER              -> << >>,
   element  |-> <<"el">>,
   location |-> <<"loc">>,
   evidence |-> CASE tok = "c:X/noev"  -> << >>
                  [] tok = "c:X/blank" -> <<" ">>
                  [] OTHER             -> <<"ev">>]

\* the fields of one element after String(c?.f ?? "").trim()
CandFields(tok) ==
  LET c == CoercedFields(tok)
  IN  [label    |-> Trim(c.label),
       element  |-> Trim(c.element),
       location |-> Trim(c.location),
       evidence |-> Trim(c.evidence)]

\* .replace(/JINBUTSU/g, "HITOKAGE").replace(/^HITO$/, "HITOKAGE")
CandLabel(raw) ==
  LET a == [i \in 1..Len(raw) |-> IF raw[i] = "JINBUTSU" THEN "HITOKAGE" ELSE raw[i]]
  IN  IF a = <<"HITO">> THEN <<"HITOKAGE">> ELSE a

Step3Candidate(tok) == [CandFields(tok) EXCEPT !.label = CandLabel(@)]

\* JSON.parse(span)?.candidates: ok is FALSE when parsing throws, isArray
\* tells whether the candidates member is an array
JsonCandidates(span) ==
  LET body == NonWs(SubSeq(span, 2, Len(span) - 1))
  IN  IF body = << >> \/ body = <<"m">>
        THEN [ok |-> TRUE, isArray |-> FALSE, elems |-> << >>]
      ELSE IF /\ Len(body) >= 2
              /\ body[1] = "[" /\ body[Len(body)] = "]"
              /\ \A i \in 2..(Len(body) - 1) : body[i] \in CandTokens
        THEN [ok |-> TRUE, isArray |-> TRUE, elems |-> SubSeq(body, 2, Len(body) - 1)]
      ELSE [ok |-> FALSE, isArray |-> FALSE, elems |-> << >>]

\* a parser that keeps every element of the array
parseCandidatesUnfiltered(text) ==
  LET first == IndexOf(text, "{")
      last  == LastIndexOf(text, "}")
  IN  IF first = 0 \/ last = 0 \/ last <= first THEN << >>
      ELSE LET json == JsonCandidates(SubSeq(text, first, last))
           IN  IF ~json.ok \/ ~json.isArray THEN << >>
               ELSE [i \in 1..Len(json.elems) |-> Step3Candidate(json.elems[i])]

\* << >> stands for null: a returned list is never empty
safeParseCandidates(text) ==
  LET first == IndexOf(text, "{")
      last  == LastIndexOf(text, "}")
  IN  IF first = 0 \/ last = 0 \/ last <= first THEN << >>
      ELSE LET json == JsonCandidates(SubSeq(text, first, last))
           IN  IF ~json.ok \/ ~json.isArray THEN << >>
               ELSE LET mapped == [i \in 1..Len(json.elems) |-> Step3Candidate(json.elems[i])]
                    IN  SelectSeq(mapped, LAMBDA c : /\ c.label # << >> /\ c.element # << >>
                                                       /\ c.location # << >> /\ c.evidence # << >>)

\* ------------------------------------------------------- the chat endpoint
\* tokens of an upstream reply: "MOUSHIWAKE" is the apology of line 143,
\* "GAZOU" a word for image (line 144), "GUTAITEKI" and "JOUHOU-WO" the words
\* for concrete and for information (line 145), "TEIKYO-DEKIMASEN" the
\* phrase "cannot provide" without "suru koto wa", which holds the word
\* for provide of line 145 and is not a phrase of line 146,
\* "TEIKYO-SURUKOTOWA-DEKIMASEN" and "OTETSUDAI-DEKIMASEN" the two phrases of
\* line 146, "HITO-WO-TOKUTEI" a phrase of line 150, "TOUTEN" the comma
KEEP_TURNS == 10

ApologyWords == {"MOUSHIWAKE"}
ImageWords   == {"GAZOU"}
DetailWords  == {"GUTAITEKI", "JOUHOU-WO", "TEIKYO-DEKIMASEN", "TEIKYO-SURUKOTOWA-DEKIMASEN"}
CannotWords  == {"TEIKYO-SURUKOTOWA-DEKIMASEN", "OTETSUDAI-DEKIMASEN"}
PersonWords  == {"HITO-WO-TOKUTEI"}

isRefusalLike(text) ==
  IF text = << >> THEN FALSE
  ELSE LET has(words)    == SeqToSet(text) \cap words # {}
           imageRefusal  == \/ has(ApologyWords) /\ has(ImageWords) /\ has(DetailWords)
                            \/ has(CannotWords)
           personRefusal == has(PersonWords)
       IN  imageRefusal \/ personRefusal

ChatMessage(role, content) == [role |-> role, content |-> content, image |-> FALSE]

PolicySystem == ChatMessage("system", <<"APP_POLICY_V2">>)

IsPolicy(m) == m.role = "system" /\ "APP_POLICY_V2" \in SeqToSet(m.content)

ensurePolicySystem(messages) ==
  IF \E i \in 1..Len(messages) : IsPolicy(messages[i]) THEN messages
  ELSE <<PolicySystem>> \o messages

\* a window that keeps the first step system instead of the last
enforceFirstSystemAndWindow(messages) ==
  LET systems      == SelectSeq(messages, LAMBDA m : m.role = "system")
      others       == SelectSeq(messages, LAMBDA m : m.role # "system")
      policies     == SelectSeq(systems, LAMBDA m : IsPolicy(m))
      policySystem == IF policies # << >> THEN policies[1] ELSE PolicySystem
      stepSystems  == SelectSeq(systems, LAMBDA m : ~IsPolicy(m))
      tail         == IF Len(others) > KEEP_TURNS * 2
                      THEN SubSeq(others, Len(others) - KEEP_TURNS * 2 + 1, Len(others))
                      ELSE others
  IN  <<policySystem>>
        \o (IF stepSystems # << >> THEN <<stepSystems[1]>> ELSE << >>)
        \o tail

enforceTwoSystemsAndWindow(messages) ==
  LET systems      == SelectSeq(messages, LAMBDA m : m.role = "system")
      others       == SelectSeq(messages, LAMBDA m : m.role # "system")
      policies     == SelectSeq(systems, LAMBDA m : IsPolicy(m))
      policySystem == IF policies # << >> THEN policies[1] ELSE PolicySystem
      stepSystems  == SelectSeq(systems, LAMBDA m : ~IsPolicy(m))
      tail         == IF Len(others) > KEEP_TURNS * 2
                      THEN SubSeq(others, Len(others) - KEEP_TURNS * 2 + 1, Len(others))
                      ELSE others
  IN  <<policySystem>>
        \o (IF stepSystems # << >> THEN <<stepSystems[Len(stepSystems)]>> ELSE << >>)
        \o tail

dropRefusalAssistantHistory(msgs) ==
  SelectSeq(msgs, LAMBDA m : ~(m.role = "assistant" /\ isRefusalLike(m.content)))

\* 0 stands for -1
findLastUserIndex(msgs) ==
  IF \E i \in 1..Len(msgs) : msgs[i].role = "user"
  THEN CHOOSE i \in 1..Len(msgs) :
         /\ msgs[i].role = "user"
         /\ \A j \in (i + 1)..Len(msgs) : msgs[j].role # "user"
  ELSE 0

\* lines 194-239: the message list of the first completion call
formattedMessages(parsed, hasImage) ==
  LET messages    == dropRefusalAssistantHistory(
                       enforceTwoSystemsAndWindow(ensurePolicySystem(parsed)))
      lastUserIdx == findLastUserIndex(messages)
      attach      == hasImage /\ lastUserIdx >= 1
  IN  [idx \in 1..Len(messages) |->
         IF attach /\ idx = lastUserIdx THEN [messages[idx] EXCEPT !.image = TRUE]
         ELSE messages[idx]]

override == ChatMessage("system", <<"OVERRIDE">>)

\* ------------------------------------------------------------------- state
VARIABLES
  st,        \* the component's React state (one field per useState of lines 570-624)
  sessions,  \* useState<Session[]>: the in-memory history list
  ls,        \* localStorage[LS_KEY]: the stored session list
  idb,       \* the IndexedDB thumbnail store: the set of session ids with a blob
  pending,   \* asynchronous operations in flight, each with its closure
  clock,     \* Date.now(): every reading is later than the one before
  nOps,      \* asynchronous operations started so far, by kind
  lim,       \* how many operations of each kind this behaviour may start
  saved,     \* history: session id -> working state at the moment of its last save
  regens,    \* history, since the exclusion list was last cleared: the labels
             \*          of the candidate lists regenerateStep3 discarded (shown) and
             \*          how often it ran (count, which stops at 2)
  opened,    \* history: the objects opened in the current Deepen phase, each
             \*          <<label, n>> with n the number of its kickoff call (0 for
             \*          a ledger a restored session brought); a kickoff that
             \*          failed does not count
  applied,   \* the last application of one of the text functions to a model
             \*          reply: the function's name, its input and what it returned
  route      \* the chat endpoint (POST of the route module) serving one request

vars == <<st, sessions, ls, idb, pending, clock, nOps, lim, saved, regens, opened,
         applied, route>>

NoRegens == [shown |-> {}, count |-> 0]

\* no text function has been applied yet
NotApplied == [fn |-> "none", input |-> << >>, output |-> << >>]

\* the endpoint before a request: upstream holds the message lists of the
\* completion calls made, replies the texts they returned, text the local
\* variable of line 253, response what the endpoint returned (status 0
\* while it has not)
IdleRoute ==
  [pc |-> "idle", upstream |-> << >>, replies |-> << >>, text |-> << >>,
   response |-> [status |-> 0, text |-> << >>]]

Null == << >>   \* null for a label or a text: the code tests them by truthiness

NoCandidate == [label |-> << >>, element |-> << >>, location |-> << >>, evidence |-> << >>]

InitialState ==
  [ file              |-> "none",   \* "none", "img" (an upload) or "thumb" (rebuilt from a thumbnail)
    step              |-> 1,
    loading           |-> 0,        \* 0 is false (idle)
    impression        |-> << >>,
    objects           |-> << >>,
    s2Cards           |-> << >>,
    s2CurrentObject   |-> Null,
    s2Dialogs         |-> << >>,
    s2Input           |-> << >>,
    s2Summary         |-> << >>,
    s3Candidates      |-> << >>,
    s3Chosen          |-> Null,
    s3Msgs            |-> << >>,
    s3Input           |-> << >>,
    s3Summary         |-> << >>,
    s3Dialogs         |-> << >>,
    s3SavedViews      |-> << >>,
    savingS3          |-> FALSE,
    finalResult       |-> << >>,
    editedFinalResult |-> << >>,
    s3ExcludedLabels  |-> << >>,
    currentSessionId  |-> 0 ]       \* 0 is null

\* the fields of the working state that a Session records
Snapshot(w) ==
  [ impression |-> w.impression, objects |-> w.objects,
    s2Summary |-> w.s2Summary, s2Dialogs |-> w.s2Dialogs,
    s3Summary |-> w.s3Summary, s3SavedViews |-> w.s3SavedViews, s3Dialogs |-> w.s3Dialogs,
    finalResult |-> w.finalResult, editedFinalResult |-> w.editedFinalResult ]

\* a record written without the two summaries
SessionWithoutSummaries(id, createdAt, updatedAt, hasThumb, w) ==
  [ id |-> id, createdAt |-> createdAt, updatedAt |-> updatedAt, hasThumb |-> hasThumb,
    impression |-> w.impression, objects |-> w.objects,
    s2Summary |-> << >>, s2Dialogs |-> w.s2Dialogs,
    s3Summary |-> << >>, s3SavedViews |-> w.s3SavedViews, s3Dialogs |-> w.s3Dialogs,
    finalResult |-> w.finalResult, editedFinalResult |-> w.editedFinalResult ]

Session(id, createdAt, updatedAt, hasThumb, w) ==
  [ id |-> id, createdAt |-> createdAt, updatedAt |-> updatedAt, hasThumb |-> hasThumb,
    impression |-> w.impression, objects |-> w.objects,
    s2Summary |-> w.s2Summary, s2Dialogs |-> w.s2Dialogs,
    s3Summary |-> w.s3Summary, s3SavedViews |-> w.s3SavedViews, s3Dialogs |-> w.s3Dialogs,
    finalResult |-> w.finalResult, editedFinalResult |-> w.editedFinalResult ]

NoSession == Session(0, 0, 0, FALSE, InitialState)

\* an operation in flight; a field an operation does not use keeps this value
BlankOp ==
  [ n |-> 0, op |-> "", tag |-> 0, cl |-> InitialState,
    key |-> << >>, msgs |-> << >>, img |-> "none",
    excl |-> << >>, regen |-> FALSE, base |-> NoCandidate,
    stage |-> "", freshS2 |-> << >>, freshS3 |-> << >>, nest |-> "none",
    sid |-> 0, at |-> 0, createdAt |-> 0, hasThumb |-> FALSE, sess |-> NoSession ]

\* the part of the render's state a handler of this kind still reads after
\* its first await; the other fields are left at their initial values
ClosureOf(kind) ==
  CASE kind \in {"selectS2Object", "sendS2Chat"} ->
         [InitialState EXCEPT !.s2Dialogs = st.s2Dialogs]
    [] kind = "deleteSession" ->
         [InitialState EXCEPT !.currentSessionId = st.currentSessionId]
    [] kind \in {"prepareStep3", "generateFinal", "saveGet"} -> st
    [] OTHER -> InitialState

NewOp(kind, tag) ==
  [BlankOp EXCEPT !.n = nOps.dialogue + nOps.generation + nOps.restore + nOps.save + nOps.delete + 1,
                  !.op = kind, !.tag = tag,
                  !.cl = ClosureOf(kind)]

KindOf(op) ==
  CASE op \in {"savePut", "saveGet"} -> "save"
    [] op = "restoreSession" -> "restore"
    [] op = "deleteSession" -> "delete"
    [] op \in {"selectS2Object", "sendS2Chat", "startS3Chat", "openSavedView", "sendS3Chat"} ->
         "dialogue"
    [] OTHER -> "generation"

CanBegin(kind) == nOps[kind] < lim[kind] /\ Cardinality(pending) < MaxInFlight

CanTalk == CanBegin("dialogue")

CanStart == CanBegin("generation")

Started(o) == /\ pending' = pending \cup {o}
              /\ nOps' = [nOps EXCEPT ![KindOf(o.op)] = @ + 1]
              /\ lim' = lim

Finished(o) == pending' = pending \ {o}

Replaced(o, o2) == pending' = (pending \ {o}) \cup {o2}

\* ------------------------------------------------------ what the user types
ImpressionTexts == {<<"calm">>}
ObjectsTexts    == {<<"A", ",", "B">>}
ChatTexts       == {<<"u">>}
FileChoices     == {"img"}   \* the user picks an image in the file dialog
FinalEdits      == {<<"edited">>}

\* ------------------------------------------- what the transport returns
DialogReplies    == {<<"a">>}
SummaryReplies   == {<<"s">>, << >>}
CandidateReplies == { <<"{", "[", "c:X", "c:Z", "]", "}">>,
                      <<"{", "[", "c:Y", "]", "}">>,
                      <<"{", "[", "c:X/noev", "]", "}">>,
                      <<"{", "m", "}">>,
                      <<"sorry">> }
FinalReplies     == {<<"f">>}

\* JSON.parse(localStorage.getItem(LS_KEY)) mapped through the coercions
\* of loadSessionsFromLocalStorage; records without an id are dropped
loadSessionsFromLocalStorage(stored, now) ==
  LET coerced == [i \in 1..Len(stored) |->
                    [stored[i] EXCEPT
                       !.createdAt = IF @ = 0 THEN now ELSE @,
                       !.updatedAt = IF @ = 0 THEN now ELSE @]]
  IN  SelectSeq(coerced, LAMBDA x : x.id # 0)

\* setSessions(loaded.slice(0, MAX_SESSIONS)) of the initial effect
InitialLoad(stored, now) ==
  LET loaded == loadSessionsFromLocalStorage(stored, now)
  IN  SubSeq(loaded, 1, IF Len(loaded) < MAX_SESSIONS THEN Len(loaded) ELSE MAX_SESSIONS)

\* -------------------------------------------------------------------- Init
Budget(t, g, r, s, d) ==
  [dialogue |-> t, generation |-> g, restore |-> r, save |-> s, delete |-> d]

\* A work as an earlier visit left it when it was saved: one object
\* discussed, two viewpoints recorded, the final text generated.  The
\* dialogue of the second viewpoint belonged to another work: its recording
\* returned after this session had been restored over it.
EarlierWork ==
  LET viewX == Step3Candidate("c:X") @@ [summary |-> <<"s">>, savedAt |-> 1]
      viewY == Step3Candidate("c:Y") @@ [summary |-> <<"s">>, savedAt |-> 1]
  IN  [InitialState EXCEPT
         !.impression = <<"calm">>,
         !.objects = <<"A", ",", "B">>,
         !.s2Dialogs = << [key |-> <<"A">>,
                           msgs |-> Append(buildStep2KickoffForObject(<<"calm">>, <<"A">>),
                                           AssistantMsg(<<"a">>))] >>,
         !.s2Summary = <<"c">>,
         !.s3Summary = <<"c">>,
         !.s3SavedViews = <<viewX, viewY>>,
         !.s3Dialogs = << [key |-> <<"X">>,
                           msgs |-> Append(buildStep3ChatKickoff(<<"calm">>, <<"c">>,
                                                                 Step3Candidate("c:X")),
                                           AssistantMsg(<<"a">>))] >>,
         !.finalResult = <<"f">>,
         !.editedFinalResult = <<"f">>]

\* the list n earlier saves of new works leave in localStorage, the most
\* recent first: the k-th save has id k and was made at time k + 1
StoredList(n) ==
  [i \in 1..n |-> Session(n - i + 1, n - i + 2, n - i + 2, TRUE, EarlierWork)]

\* the component right after construction and the effect of lines 637-641,
\* in a browser that holds the sessions and thumbnails of n earlier saves
InitWith(n, b) ==
  /\ st = InitialState
  /\ ls = StoredList(n)
  /\ sessions = InitialLoad(StoredList(n), n + 2)
  /\ idb = 1..n
  /\ pending = {}
  /\ clock = n + 2
  /\ nOps = Budget(0, 0, 0, 0, 0)
  /\ lim = b
  /\ saved = << >>
  /\ regens = NoRegens
  /\ opened = {}
  /\ applied = NotApplied
  /\ route = IdleRoute

\* a first visit, or a visit after one earlier save
\* the operations one behaviour may start: a restore and a save around two
\* dialogue calls; two generation calls and two restores; a restore before
\* one call of each kind; a save between two restores; a restore, a deletion
\* and a save; a restore, a generation call and a save
Budgets ==
  { Budget(MaxOps, 0, MaxStoreOps, MaxStoreOps, 0),
    Budget(0, MaxOps, MaxStoreOps + 1, 0, 0),
    Budget(MaxOps - 1, MaxOps - 1, MaxStoreOps, 0, 0),
    Budget(0, 0, MaxStoreOps + 1, MaxStoreOps, 0),
    Budget(0, 0, MaxStoreOps, MaxStoreOps, MaxStoreOps),
    Budget(0, MaxOps - 1, MaxStoreOps, MaxStoreOps, 0) }

Init == \E n \in {0, 1}, b \in Budgets : InitWith(n, b)

Store  == <<sessions, ls, idb, saved>>
Quiet  == <<pending, nOps, lim>>

\* ------------------------------------------------------ Step 1 and the file input
\* <input type="file" onChange={(e) => setFile(e.target.files?.[0] || null)}>
SetFile(f) ==
  /\ st.file # f
  /\ st' = [st EXCEPT !.file = f]
  /\ UNCHANGED <<Store, Quiet, clock, regens, opened, applied, route>>

SetImpression(t) ==
  /\ st.step = 1
  /\ st.impression # t
  /\ st' = [st EXCEPT !.impression = t]
  /\ UNCHANGED <<Store, Quiet, clock, regens, opened, applied, route>>

SetObjects(t) ==
  /\ st.step = 1
  /\ st.objects # t
  /\ st' = [st EXCEPT !.objects = t]
  /\ UNCHANGED <<Store, Quiet, clock, regens, opened, applied, route>>

\* the button is disabled unless file, impression and objects are all set
startStep2 ==
  /\ st.step = 1
  /\ st.file # "none" /\ st.impression # << >> /\ st.objects # << >>
  /\ st.loading = 0
  /\ st' = [st EXCEPT !.s2Cards = CardsOf(st.objects),
                      !.s2Dialogs = << >>,
                      !.s3ExcludedLabels = << >>,
                      !.s3Dialogs = << >>,
                      !.s3SavedViews = << >>,
                      !.savingS3 = FALSE,
                      !.step = 2]
  /\ regens' = NoRegens
  /\ opened' = {}
  /\ UNCHANGED <<Store, Quiet, clock, applied, route>>

\* ------------------------------------------------------------------ Step 2
CardLabels == {st.s2Cards[i].label : i \in 1..Len(st.s2Cards)}

\* selecting a card whose ledger exists only shows it
selectS2ObjectResume(obj) ==
  /\ st.step = 2 /\ st.s2CurrentObject = Null /\ obj \in CardLabels
  /\ st.loading = 0
  /\ HasKey(st.s2Dialogs, obj)
  /\ st' = [st EXCEPT !.s2CurrentObject = obj]
  /\ UNCHANGED <<Store, Quiet, clock, regens, opened, applied, route>>

selectS2ObjectKickoff(obj) ==
  /\ st.step = 2 /\ st.s2CurrentObject = Null /\ obj \in CardLabels
  /\ st.loading = 0
  /\ ~HasKey(st.s2Dialogs, obj)
  /\ CanTalk
  /\ LET kickoff       == buildStep2KickoffForObject(st.impression, obj)
         isFirstObject == Len(st.s2Dialogs) = 0
     IN  /\ st' = [st EXCEPT !.s2CurrentObject = obj,
                             !.s2Dialogs = Put(st.s2Dialogs, obj, kickoff),
                             !.loading = 2]
         /\ Started([NewOp("selectS2Object", 2) EXCEPT
                       !.key = obj, !.msgs = kickoff,
                       !.img = IF isFirstObject THEN st.file ELSE "none"])
  /\ opened' = opened \cup {<<obj, nOps.dialogue + nOps.generation + nOps.restore
                                   + nOps.save + nOps.delete + 1>>}
  /\ UNCHANGED <<Store, clock, regens, applied, route>>

\* the reply arrives: the ledger map of the handler's own render is extended
selectS2ObjectReply(o, outRaw) ==
  /\ o.op = "selectS2Object"
  /\ st' = [st EXCEPT
              !.s2Dialogs = Put(o.cl.s2Dialogs, o.key,
                                Append(o.msgs, AssistantMsg(normalizeAssistantText(outRaw)))),
              !.loading = 0]
  /\ Finished(o)
  /\ UNCHANGED <<Store, nOps, lim, clock, regens, opened, applied, route>>

\* a handler whose call throws without a finally block: loading stays set
dialogueFailedBusy(o) ==
  /\ o.op \in {"selectS2Object", "sendS2Chat", "finalizeStep2",
               "startS3Chat", "openSavedView", "sendS3Chat"}
  /\ Finished(o)
  /\ UNCHANGED <<st, Store, nOps, lim, clock, regens, opened, applied, route>>

\* sendChat throws: only the finally block runs
dialogueFailed(o) ==
  /\ o.op \in {"selectS2Object", "sendS2Chat", "finalizeStep2",
               "startS3Chat", "openSavedView", "sendS3Chat"}
  /\ st' = [st EXCEPT !.loading = 0]
  /\ opened' = opened \ {<<o.key, o.n>>}
  /\ Finished(o)
  /\ UNCHANGED <<Store, nOps, lim, clock, regens, applied, route>>

\* the user types t into the box of the object's chat (onChange, line 1414:
\* setS2Input) and sends it; between two sends the box holds what the last
\* send left there
sendS2Chat(t) ==
  /\ st.step = 2 /\ st.s2CurrentObject # Null
  /\ st.loading = 0
  /\ Trim(t) # << >>
  /\ Len(SelectSeq(Get(st.s2Dialogs, st.s2CurrentObject),
                   LAMBDA m : m.role = "user" /\ ~m.hidden)) < MaxTurns
  /\ CanTalk
  /\ LET currentMsgs == Get(st.s2Dialogs, st.s2CurrentObject)
         next        == Append(currentMsgs, UserMsg(t))
     IN  /\ st' = [st EXCEPT !.s2Dialogs = Put(st.s2Dialogs, st.s2CurrentObject, next),
                             !.s2Input = << >>,
                             !.loading = 2]
         /\ Started([NewOp("sendS2Chat", 2) EXCEPT !.key = st.s2CurrentObject, !.msgs = next])
  /\ UNCHANGED <<Store, clock, regens, opened, applied, route>>

sendS2ChatReply(o, outRaw) ==
  /\ o.op = "sendS2Chat"
  /\ st' = [st EXCEPT
              !.s2Dialogs = Put(o.cl.s2Dialogs, o.key,
                                Append(o.msgs, AssistantMsg(normalizeAssistantText(outRaw)))),
              !.loading = 0]
  /\ Finished(o)
  /\ UNCHANGED <<Store, nOps, lim, clock, regens, opened, applied, route>>

completeCurrentObject ==
  /\ st.step = 2 /\ st.s2CurrentObject # Null
  /\ st' = [st EXCEPT
              !.s2Cards = [i \in 1..Len(st.s2Cards) |->
                             IF st.s2Cards[i].label = st.s2CurrentObject
                             THEN [st.s2Cards[i] EXCEPT !.completed = TRUE]
                             ELSE st.s2Cards[i]],
              !.s2CurrentObject = Null]
  /\ UNCHANGED <<Store, Quiet, clock, regens, opened, applied, route>>

\* "back to the list": setS2CurrentObject(null)
backToS2List ==
  /\ st.step = 2 /\ st.s2CurrentObject # Null
  /\ st' = [st EXCEPT !.s2CurrentObject = Null]
  /\ UNCHANGED <<Store, Quiet, clock, regens, opened, applied, route>>

finalizeStep2 ==
  /\ st.step = 2 /\ st.s2CurrentObject = Null
  /\ st.loading = 0
  /\ CanStart
  /\ st' = [st EXCEPT !.loading = 2]
  /\ Started([NewOp("finalizeStep2", 2) EXCEPT
                !.msgs = buildStep2SummarizeMessages(AllMessages(st.s2Dialogs))])
  /\ UNCHANGED <<Store, clock, regens, opened, applied, route>>

finalizeStep2Reply(o, sum) ==
  /\ o.op = "finalizeStep2"
  /\ st' = [st EXCEPT !.s2Summary = sum, !.loading = 0]
  /\ Finished(o)
  /\ UNCHANGED <<Store, nOps, lim, clock, regens, opened, applied, route>>

\* ------------------------------------------------------- final synthesis
\* s3SavedViews.filter((v) => (v.summary || "").trim().length > 0)
Recorded(views) == SelectSeq(views, LAMBDA v : Len(Trim(v.summary)) > 0)

\* the first transport call generateFinal makes from the render state w:
\* summarizeStep2Now and summarizeStep3Now return "" without a call when
\* there is nothing to summarize
FirstStage(w) ==
  IF Len(AllMessages(w.s2Dialogs)) # 0 THEN "s2"
  ELSE IF Len(Recorded(w.s3SavedViews)) # 0 THEN "s3"
  ELSE "final"

StageAfterS2(w) == IF Len(Recorded(w.s3SavedViews)) # 0 THEN "s3" ELSE "final"

\* the cached summary preferred to the fresh one
CachedFirst(w, freshS2) == OrText(w.s2Summary, OrText(freshS2, <<"(STEP2-UNRECORDED)">>))

FinalS2Text(w, freshS2) == OrText(freshS2, OrText(w.s2Summary, <<"(STEP2-UNRECORDED)">>))
FinalS3Text(w, freshS3) == OrText(freshS3, OrText(w.s3Summary, <<"(STEP3-UNRECORDED)">>))

StageMessages(w, stage, freshS2, freshS3) ==
  CASE stage = "s2" -> buildStep2SummarizeMessages(AllMessages(w.s2Dialogs))
    [] stage = "s3" -> buildStep3SummarizeFromSavedViewsMessages(Recorded(w.s3SavedViews))
    [] OTHER        -> buildFinalMessages(w.impression, w.objects,
                                          FinalS2Text(w, freshS2), FinalS3Text(w, freshS3))

\* generateFinal up to its first await, run in the render state w
GenerateFinalOp(o0, w, nest) ==
  [o0 EXCEPT !.op = "generateFinal", !.tag = 4, !.cl = w, !.nest = nest,
             !.stage = FirstStage(w), !.freshS2 = << >>, !.freshS3 = << >>,
             !.msgs = StageMessages(w, FirstStage(w), << >>, << >>), !.img = "none"]

\* the two "generate final" buttons of Step 3: the one of the list is
\* disabled while loading, the one of the chat while savingS3
generateFinal ==
  /\ st.step = 3
  /\ st.s3Chosen # Null => ~st.savingS3
  /\ st.loading = 0
  /\ CanStart
  /\ st' = [st EXCEPT !.loading = 4]
  /\ Started(GenerateFinalOp(NewOp("generateFinal", 4), st, "none"))
  /\ UNCHANGED <<Store, clock, regens, opened, applied, route>>

\* a summarization call of generateFinal returns
generateFinalSummaryReply(o, sum) ==
  /\ o.op = "generateFinal" /\ o.stage \in {"s2", "s3"}
  /\ LET fresh == Trim(sum)
         o2    == IF o.stage = "s2"
                  THEN [o EXCEPT !.freshS2 = fresh, !.stage = StageAfterS2(o.cl),
                                 !.msgs = StageMessages(o.cl, StageAfterS2(o.cl), fresh, << >>)]
                  ELSE [o EXCEPT !.freshS3 = fresh, !.stage = "final",
                                 !.msgs = StageMessages(o.cl, "final", o.freshS2, fresh)]
     IN  /\ st' = IF fresh = << >> THEN st
                  ELSE IF o.stage = "s2" THEN [st EXCEPT !.s2Summary = fresh]
                  ELSE [st EXCEPT !.s3Summary = fresh]
         /\ Replaced(o, o2)
  /\ UNCHANGED <<Store, nOps, lim, clock, regens, opened, applied, route>>

\* the synthesis call returns (then the finally blocks clear loading)
generateFinalReply(o, out) ==
  /\ o.op = "generateFinal" /\ o.stage = "final"
  /\ st' = [st EXCEPT !.finalResult = out, !.editedFinalResult = out,
                      !.step = 4, !.loading = 0]
  /\ Finished(o)
  /\ UNCHANGED <<Store, nOps, lim, clock, regens, opened, applied, route>>

\* a call of generateFinal throws.  Called from the try block of
\* prepareStep3, the error reaches its catch block, which asks again.
generateFinalFailed(o, confirmed) ==
  /\ o.op = "generateFinal"
  /\ IF o.nest = "try"
     THEN IF confirmed
          THEN /\ st' = [st EXCEPT !.loading = 4]
               /\ Replaced(o, GenerateFinalOp(o, o.cl, "catch"))
          ELSE /\ st' = [st EXCEPT !.step = 2, !.loading = 0]
               /\ Finished(o)
     ELSE /\ confirmed
          /\ st' = [st EXCEPT !.loading = 0]
          /\ Finished(o)
  /\ UNCHANGED <<Store, nOps, lim, clock, regens, opened, applied, route>>

\* ------------------------------------------------------------------ Step 3
\* prepareStep3 after its guard, with baseExcluded the exclusion list
PrepareStep3Op(baseExcluded, regen) ==
  LET savedLabels    == LabelsOf(st.s3SavedViews)
      mergedExcluded == Dedupe(baseExcluded \o savedLabels)
  IN  [NewOp("prepareStep3", 3) EXCEPT
         !.excl = mergedExcluded, !.regen = regen, !.img = st.file,
         !.msgs = buildStep3CandidateMessages(OrText(st.objects, <<"(NO-INPUT)">>),
                                              OrText(st.s2Summary, <<"(NO-SUMMARY)">>),
                                              mergedExcluded, st.s3SavedViews)]

\* the Step 3 button of the Step 2 list, shown once s2Summary is set; with
\* no file the handler only shows a notice
prepareStep3 ==
  /\ st.step = 2 /\ st.s2CurrentObject = Null
  /\ st.s2Summary # << >>
  /\ st.loading = 0
  /\ st.file # "none"
  /\ CanStart
  /\ st' = [st EXCEPT !.loading = 3]
  /\ Started(PrepareStep3Op(st.s3ExcludedLabels, FALSE))
  /\ UNCHANGED <<Store, clock, regens, opened, applied, route>>

regenerateStep3 ==
  /\ st.step = 3 /\ st.s3Chosen = Null
  /\ st.loading = 0
  /\ LET newExcluded == st.s3ExcludedLabels \o LabelsOf(st.s3Candidates) \o LabelsOf(st.s3SavedViews)
         deduped     == Dedupe(newExcluded)
         cleared     == [st EXCEPT !.s3ExcludedLabels = deduped, !.s3Candidates = << >>,
                                   !.s3Chosen = Null, !.s3Msgs = << >>]
     IN  IF st.file = "none"
         THEN /\ st' = cleared
              /\ UNCHANGED Quiet
         ELSE /\ CanStart
              /\ st' = [cleared EXCEPT !.loading = 3]
              /\ Started(PrepareStep3Op(deduped, TRUE))
  /\ regens' = [shown |-> regens.shown \cup SeqToSet(LabelsOf(st.s3Candidates)),
                 count |-> IF regens.count < 2 THEN regens.count + 1 ELSE 2]
  /\ UNCHANGED <<Store, clock, opened, applied, route>>

\* a reply handler that shows whatever was parsed, an empty list too
prepareStep3ReplyStuck(o, out, confirmed) ==
  /\ o.op = "prepareStep3"
  /\ confirmed
  /\ st' = [st EXCEPT !.s3Candidates = safeParseCandidates(out), !.step = 3, !.loading = 0]
  /\ Finished(o)
  /\ UNCHANGED <<Store, nOps, lim, clock, regens, opened, applied, route>>

\* the candidate call returns text; window.confirm answers confirmed when
\* no candidate was parsed
prepareStep3Reply(o, out, confirmed) ==
  /\ o.op = "prepareStep3"
  /\ LET parsed == safeParseCandidates(out)
     IN  IF Len(parsed) > 0
         THEN /\ confirmed
              /\ st' = [st EXCEPT !.s3Candidates = parsed, !.step = 3, !.loading = 0]
              /\ Finished(o)
         ELSE IF confirmed
         THEN /\ st' = [st EXCEPT !.s3Candidates = << >>, !.loading = 4]
              /\ Replaced(o, GenerateFinalOp(o, o.cl, "try"))
         ELSE /\ st' = [st EXCEPT !.s3Candidates = << >>, !.step = 2, !.loading = 0]
              /\ Finished(o)
  /\ UNCHANGED <<Store, nOps, lim, clock, regens, opened, applied, route>>

\* the candidate call throws: the catch block asks the same question
prepareStep3Failed(o, confirmed) ==
  /\ o.op = "prepareStep3"
  /\ IF confirmed
     THEN /\ st' = [st EXCEPT !.loading = 4]
          /\ Replaced(o, GenerateFinalOp(o, o.cl, "catch"))
     ELSE /\ st' = [st EXCEPT !.step = 2, !.loading = 0]
          /\ Finished(o)
  /\ UNCHANGED <<Store, nOps, lim, clock, regens, opened, applied, route>>

CandidateOf(v) ==
  [label |-> v.label, element |-> v.element, location |-> v.location, evidence |-> v.evidence]

\* startS3Chat and openSavedView share their body: resume the ledger of
\* the label when it has turns, else kick off
S3Resume(c) ==
  /\ Len(Get(st.s3Dialogs, c.label)) > 0
  /\ st' = [st EXCEPT !.s3Chosen = c.label, !.s3Msgs = Get(st.s3Dialogs, c.label)]
  /\ UNCHANGED <<Store, Quiet, clock, regens, opened, applied, route>>

S3Kickoff(kind, c) ==
  /\ Len(Get(st.s3Dialogs, c.label)) = 0
  /\ CanTalk
  /\ LET kickoff == buildStep3ChatKickoff(st.impression, st.s2Summary, c)
     IN  /\ st' = [st EXCEPT !.s3Chosen = c.label,
                             !.s3Msgs = kickoff,
                             !.s3Dialogs = Put(st.s3Dialogs, c.label, kickoff),
                             !.loading = 3]
         /\ Started([NewOp(kind, 3) EXCEPT !.key = c.label, !.msgs = kickoff, !.base = c])
  /\ UNCHANGED <<Store, clock, regens, opened, applied, route>>

InS3List == st.step = 3 /\ st.s3Chosen = Null

startS3ChatResume(i) ==
  /\ InS3List /\ i \in 1..Len(st.s3Candidates)
  /\ st.loading = 0
  /\ S3Resume(st.s3Candidates[i])

startS3Chat(i) ==
  /\ InS3List /\ i \in 1..Len(st.s3Candidates)
  /\ st.loading = 0
  /\ S3Kickoff("startS3Chat", st.s3Candidates[i])

openSavedViewResume(i) ==
  /\ InS3List /\ i \in 1..Len(st.s3SavedViews)
  /\ st.loading = 0
  /\ S3Resume(CandidateOf(st.s3SavedViews[i]))

openSavedView(i) ==
  /\ InS3List /\ i \in 1..Len(st.s3SavedViews)
  /\ st.loading = 0
  /\ S3Kickoff("openSavedView", CandidateOf(st.s3SavedViews[i]))

\* the reply to a Step 3 kickoff or follow-up: setS3Dialogs((prev) => ...)
\* extends the ledger map of the current state
s3ChatReply(o, outRaw) ==
  /\ o.op \in {"startS3Chat", "openSavedView", "sendS3Chat"}
  /\ LET nextMsgs == Append(o.msgs, AssistantMsg(normalizeAssistantText(outRaw)))
     IN  st' = [st EXCEPT !.s3Msgs = nextMsgs,
                          !.s3Dialogs = Put(st.s3Dialogs, o.key, nextMsgs),
                          !.loading = 0]
  /\ Finished(o)
  /\ UNCHANGED <<Store, nOps, lim, clock, regens, opened, applied, route>>

\* the user types t into the box of the viewpoint's chat (onChange, line
\* 1575: setS3Input) and sends it
sendS3Chat(t) ==
  /\ st.step = 3 /\ st.s3Chosen # Null
  /\ st.loading = 0
  /\ Trim(t) # << >>
  /\ Len(SelectSeq(st.s3Msgs, LAMBDA m : m.role = "user" /\ ~m.hidden)) < MaxTurns
  /\ CanTalk
  /\ LET next == Append(st.s3Msgs, UserMsg(t))
     IN  /\ st' = [st EXCEPT !.s3Msgs = next,
                             !.s3Dialogs = Put(st.s3Dialogs, st.s3Chosen, next),
                             !.s3Input = << >>,
                             !.loading = 3]
         /\ Started([NewOp("sendS3Chat", 3) EXCEPT !.key = st.s3Chosen, !.msgs = next])
  /\ UNCHANGED <<Store, clock, regens, opened, applied, route>>

\* "back" of the Step 3 chat: setS3Chosen(null)
backToS3List ==
  /\ st.step = 3 /\ st.s3Chosen # Null
  /\ st' = [st EXCEPT !.s3Chosen = Null]
  /\ UNCHANGED <<Store, Quiet, clock, regens, opened, applied, route>>

\* s3Candidates.find(...) || s3SavedViews.find(...) || null
RecordBase(w) ==
  LET fromList  == SelectSeq(w.s3Candidates, LAMBDA c : c.label = w.s3Chosen)
      fromSaved == SelectSeq(w.s3SavedViews, LAMBDA v : v.label = w.s3Chosen)
  IN  IF Len(fromList) > 0 THEN fromList[1]
      ELSE IF Len(fromSaved) > 0 THEN CandidateOf(fromSaved[1])
      ELSE NoCandidate

\* an updater that always appends
AppendSavedView(prev, base, sum, now) ==
  Append(prev, [label |-> base.label, element |-> base.element, location |-> base.location,
                evidence |-> base.evidence, summary |-> sum, savedAt |-> now])

\* an updater that drops the recorded label and appends it again
MoveSavedViewToEnd(prev, base, sum, now) ==
  AppendSavedView(SelectSeq(prev, LAMBDA v : v.label # base.label), base, sum, now)

\* the updater of setS3SavedViews in recordS3Summary
UpsertSavedView(prev, base, sum, now) ==
  IF \E i \in 1..Len(prev) : prev[i].label = base.label
  THEN [i \in 1..Len(prev) |->
          IF prev[i].label = base.label
          THEN [label |-> base.label, element |-> base.element, location |-> base.location,
                evidence |-> base.evidence, summary |-> sum, savedAt |-> now]
          ELSE prev[i]]
  ELSE Append(prev, [label |-> base.label, element |-> base.element, location |-> base.location,
                     evidence |-> base.evidence, summary |-> sum, savedAt |-> now])

recordS3Summary ==
  /\ st.step = 3 /\ st.s3Chosen # Null
  /\ ~st.savingS3 /\ st.loading = 0
  /\ RecordBase(st) # NoCandidate
  /\ CanStart
  /\ st' = [st EXCEPT !.savingS3 = TRUE]
  /\ Started([NewOp("recordS3Summary", 0) EXCEPT
                !.key = st.s3Chosen, !.base = RecordBase(st),
                !.msgs = buildStep2SummarizeMessages(st.s3Msgs)])
  /\ UNCHANGED <<Store, clock, regens, opened, applied, route>>

recordS3SummaryReply(o, sum) ==
  /\ o.op = "recordS3Summary"
  /\ st' = [st EXCEPT !.s3Summary = sum,
                      !.s3SavedViews = UpsertSavedView(st.s3SavedViews, o.base, sum, clock),
                      !.savingS3 = FALSE]
  /\ clock' = clock + 1
  /\ Finished(o)
  /\ UNCHANGED <<Store, nOps, lim, regens, opened, applied, route>>

\* a failure handler without the finally block: savingS3 stays set
recordS3SummaryFailedStuck(o) ==
  /\ o.op = "recordS3Summary"
  /\ Finished(o)
  /\ UNCHANGED <<st, Store, nOps, lim, clock, regens, opened, applied, route>>

recordS3SummaryFailed(o) ==
  /\ o.op = "recordS3Summary"
  /\ st' = [st EXCEPT !.savingS3 = FALSE]
  /\ Finished(o)
  /\ UNCHANGED <<Store, nOps, lim, clock, regens, opened, applied, route>>

\* "back to Step 2" of the Step 3 list
backToStep2From3 ==
  /\ InS3List
  /\ st.loading = 0
  /\ st' = [st EXCEPT !.s3Chosen = Null, !.s3Msgs = << >>, !.step = 2]
  /\ UNCHANGED <<Store, Quiet, clock, regens, opened, applied, route>>

\* ------------------------------------------------------------------ Step 4
\* the Step 4 page shows only a spinner while loading === 4
InStep4 == st.step = 4 /\ st.loading # 4

\* an edit that writes the generated text as well
setBothFinalResults(t) ==
  /\ InStep4
  /\ st.editedFinalResult # t
  /\ st' = [st EXCEPT !.editedFinalResult = t, !.finalResult = t]
  /\ UNCHANGED <<Store, Quiet, clock, regens, opened, applied, route>>

setEditedFinalResult(t) ==
  /\ InStep4
  /\ st.editedFinalResult # t
  /\ st' = [st EXCEPT !.editedFinalResult = t]
  /\ UNCHANGED <<Store, Quiet, clock, regens, opened, applied, route>>

backToStep3From4 ==
  /\ InStep4 /\ st.loading = 0
  /\ st' = [st EXCEPT !.s3Chosen = Null, !.s3Msgs = << >>, !.step = 3]
  /\ UNCHANGED <<Store, Quiet, clock, regens, opened, applied, route>>

backToStep2From4 ==
  /\ InStep4 /\ st.loading = 0
  /\ st' = [st EXCEPT !.s2CurrentObject = Null, !.step = 2]
  /\ UNCHANGED <<Store, Quiet, clock, regens, opened, applied, route>>

\* ----------------------------------------------------------- session store
Ids(list) == {list[i].id : i \in 1..Len(list)}

SetMax(S) == IF S = {} THEN 0 ELSE CHOOSE x \in S : \A y \in S : y <= x

\* crypto.randomUUID(): an id that names no session, blob or pending save
FreshId ==
  1 + SetMax(Ids(sessions) \cup Ids(ls) \cup idb \cup DOMAIN saved
             \cup {o.sid : o \in pending} \cup {o.sess.id : o \in pending}
             \cup {st.currentSessionId})

\* an updater that never looks for the id
PrependSession(prev, session) ==
  SubSeq(<<session>> \o prev, 1, IF Len(prev) + 1 < MAX_SESSIONS THEN Len(prev) + 1
                                  ELSE MAX_SESSIONS)

\* an updater without .slice(0, MAX_SESSIONS)
UpsertSessionUncapped(prev, session) ==
  IF \E i \in 1..Len(prev) : prev[i].id = session.id
  THEN [i \in 1..Len(prev) |-> IF prev[i].id = session.id THEN session ELSE prev[i]]
  ELSE <<session>> \o prev

\* the updater of setSessions in saveOrUpdateSession
UpsertSession(prev, session) ==
  IF \E i \in 1..Len(prev) : prev[i].id = session.id
  THEN [i \in 1..Len(prev) |-> IF prev[i].id = session.id THEN session ELSE prev[i]]
  ELSE SubSeq(<<session>> \o prev, 1, IF Len(prev) + 1 < MAX_SESSIONS THEN Len(prev) + 1
                                       ELSE MAX_SESSIONS)

\* the second updater: hasThumb is set again once the thumbnail is stored
MarkThumb(prev, id, now) ==
  [i \in 1..Len(prev) |->
     IF prev[i].id = id THEN [prev[i] EXCEPT !.hasThumb = TRUE, !.updatedAt = now] ELSE prev[i]]

CreatedAtOf(list, id, now) ==
  IF \E i \in 1..Len(list) : list[i].id = id
  THEN list[CHOOSE i \in 1..Len(list) : list[i].id = id].createdAt
  ELSE now

\* setSessions(...) with saveSessionsToLocalStorage(next) inside the updater
WriteSessions(next) ==
  /\ sessions' = next
  /\ ls' = next

resetToStep1 == InitialState

\* "new work" of Step 4: saveOrUpdateSession up to its first await.  With a
\* file, hasThumb needs no read and the record is written at once.
newWorkWithFile ==
  /\ InStep4
  /\ st.file # "none"
  /\ CanBegin("save")
  /\ LET now     == clock
         id      == IF st.currentSessionId # 0 THEN st.currentSessionId ELSE FreshId
         created == IF st.currentSessionId # 0 THEN CreatedAtOf(sessions, id, now) ELSE now
         session == Session(id, created, now, TRUE, st)
     IN  /\ WriteSessions(UpsertSession(sessions, session))
         /\ saved' = (id :> Snapshot(st)) @@ saved
         /\ Started([NewOp("savePut", 0) EXCEPT !.sid = id, !.at = now])
  /\ clock' = clock + 1
  /\ UNCHANGED <<st, idb, regens, opened, applied, route>>

\* without a file, hasThumb awaits idbGetThumb(id)
newWorkWithoutFile ==
  /\ InStep4
  /\ st.file = "none"
  /\ CanBegin("save")
  /\ LET now     == clock
         id      == IF st.currentSessionId # 0 THEN st.currentSessionId ELSE FreshId
         created == IF st.currentSessionId # 0 THEN CreatedAtOf(sessions, id, now) ELSE now
     IN  Started([NewOp("saveGet", 0) EXCEPT !.sid = id, !.at = now, !.createdAt = created])
  /\ clock' = clock + 1
  /\ UNCHANGED <<st, Store, regens, opened, applied, route>>

\* idbGetThumb returns (readOk) or rejects; then the record is written,
\* setCurrentSessionId(id) and resetToStep1() run
saveGetDone(o, readOk) ==
  /\ o.op = "saveGet"
  /\ LET hasThumb == readOk /\ o.sid \in idb
         session  == Session(o.sid, o.createdAt, o.at, hasThumb, o.cl)
     IN  WriteSessions(UpsertSession(sessions, session))
  /\ saved' = (o.sid :> Snapshot(o.cl)) @@ saved
  /\ st' = resetToStep1
  /\ regens' = NoRegens
  /\ opened' = {}
  /\ Finished(o)
  /\ UNCHANGED <<idb, nOps, lim, clock, applied, route>>

\* fileToThumbDataUrl and idbPutThumb return (stored), or the thumbnail is
\* empty or one of them throws; then setCurrentSessionId(id) and resetToStep1()
savePutDone(o, stored) ==
  /\ o.op = "savePut"
  /\ IF stored
     THEN /\ idb' = idb \cup {o.sid}
          /\ WriteSessions(MarkThumb(sessions, o.sid, o.at))
     ELSE UNCHANGED <<idb, sessions, ls>>
  /\ st' = resetToStep1
  /\ regens' = NoRegens
  /\ opened' = {}
  /\ Finished(o)
  /\ UNCHANGED <<saved, nOps, lim, clock, applied, route>>

\* "resume" of the history panel, confirmed: idbGetThumb(s.id) is awaited
restoreSession(i) ==
  /\ i \in 1..Len(sessions)
  /\ CanBegin("restore")
  /\ Started([NewOp("restoreSession", 0) EXCEPT !.sess = sessions[i], !.sid = sessions[i].id])
  /\ UNCHANGED <<st, Store, clock, regens, opened, applied, route>>

\* a restore that stops at a thumbnail it cannot read
restoreSessionDoneStrict(o, readOk) ==
  /\ o.op = "restoreSession"
  /\ st' = IF readOk /\ o.sess.id \in idb
           THEN [st EXCEPT !.currentSessionId = o.sess.id, !.file = "thumb", !.step = 4]
           ELSE st
  /\ Finished(o)
  /\ UNCHANGED <<Store, nOps, lim, clock, regens, opened, applied, route>>

restoreSessionDone(o, readOk) ==
  /\ o.op = "restoreSession"
  /\ LET s     == o.sess
         thumb == readOk /\ s.id \in idb
     IN  st' = [st EXCEPT
                  !.currentSessionId = s.id,
                  !.impression = s.impression,
                  !.objects = s.objects,
                  !.s2Summary = s.s2Summary,
                  !.s2Dialogs = s.s2Dialogs,
                  !.s2Cards = CardsOf(s.objects),
                  !.s2CurrentObject = Null,
                  !.s2Input = << >>,
                  !.s3Summary = s.s3Summary,
                  !.s3SavedViews = s.s3SavedViews,
                  !.s3Dialogs = s.s3Dialogs,
                  !.s3Candidates = << >>,
                  !.s3Chosen = Null,
                  !.s3Msgs = << >>,
                  !.s3Input = << >>,
                  !.savingS3 = FALSE,
                  !.s3ExcludedLabels = << >>,
                  !.finalResult = s.finalResult,
                  !.editedFinalResult = OrText(s.editedFinalResult, s.finalResult),
                  !.file = IF thumb THEN "thumb" ELSE "none",
                  !.step = 4]
  /\ regens' = NoRegens
  /\ opened' = {<<k, 0>> : k \in Keys(o.sess.s2Dialogs)}
  /\ Finished(o)
  /\ UNCHANGED <<Store, nOps, lim, clock, applied, route>>

\* "delete" of the history panel, confirmed: the record goes at once,
\* idbDeleteThumb is awaited
deleteSession(i) ==
  /\ i \in 1..Len(sessions)
  /\ CanBegin("delete")
  /\ WriteSessions(SelectSeq(sessions, LAMBDA x : x.id # sessions[i].id))
  /\ Started([NewOp("deleteSession", 0) EXCEPT !.sid = sessions[i].id])
  /\ UNCHANGED <<st, idb, saved, clock, regens, opened, applied, route>>

deleteSessionDone(o, deleted) ==
  /\ o.op = "deleteSession"
  /\ idb' = IF deleted THEN idb \ {o.sid} ELSE idb
  /\ st' = IF o.cl.currentSessionId = o.sid THEN [st EXCEPT !.currentSessionId = 0] ELSE st
  /\ Finished(o)
  /\ UNCHANGED <<sessions, ls, saved, nOps, lim, clock, regens, opened, applied, route>>

\* the page is loaded again: the component is constructed anew and the
\* effect of lines 637-641 reads the stored list
Reload ==
  /\ st' = InitialState
  /\ sessions' = InitialLoad(ls, clock)
  /\ pending' = {}
  /\ regens' = NoRegens
  /\ opened' = {}
  /\ UNCHANGED <<ls, idb, saved, clock, nOps, lim, applied, route>>

\* the rows of the history panel the user clicks: the first, the second
\* and the last
HistoryPicks == {1, 2, Len(sessions)} \cap (1..Len(sessions))

\* -------------------------------------------------------------------- Next
Next ==
  \/ \E f \in FileChoices : SetFile(f)
  \/ \E t \in ImpressionTexts : SetImpression(t)
  \/ \E t \in ObjectsTexts : SetObjects(t)
  \/ startStep2
  \/ \E obj \in CardLabels : selectS2ObjectResume(obj)
  \/ \E obj \in CardLabels : selectS2ObjectKickoff(obj)
  \/ \E o \in pending, r \in DialogReplies : selectS2ObjectReply(o, r)
  \/ \E o \in pending : dialogueFailed(o)
  \/ \E t \in ChatTexts : sendS2Chat(t)
  \/ \E o \in pending, r \in DialogReplies : sendS2ChatReply(o, r)
  \/ completeCurrentObject
  \/ backToS2List
  \/ finalizeStep2
  \/ \E o \in pending, r \in SummaryReplies : finalizeStep2Reply(o, r)
  \/ prepareStep3
  \/ regenerateStep3
  \/ \E o \in pending, r \in CandidateReplies, c \in BOOLEAN : prepareStep3Reply(o, r, c)
  \/ \E o \in pending, c \in BOOLEAN : prepareStep3Failed(o, c)
  \/ \E i \in 1..Len(st.s3Candidates) : startS3ChatResume(i)
  \/ \E i \in 1..Len(st.s3Candidates) : startS3Chat(i)
  \/ \E i \in 1..Len(st.s3SavedViews) : openSavedViewResume(i)
  \/ \E i \in 1..Len(st.s3SavedViews) : openSavedView(i)
  \/ \E o \in pending, r \in DialogReplies : s3ChatReply(o, r)
  \/ \E t \in ChatTexts : sendS3Chat(t)
  \/ backToS3List
  \/ recordS3Summary
  \/ \E o \in pending, r \in SummaryReplies : recordS3SummaryReply(o, r)
  \/ \E o \in pending : recordS3SummaryFailed(o)
  \/ backToStep2From3
  \/ generateFinal
  \/ \E o \in pending, r \in SummaryReplies : generateFinalSummaryReply(o, r)
  \/ \E o \in pending, r \in FinalReplies : generateFinalReply(o, r)
  \/ \E o \in pending, c \in BOOLEAN : generateFinalFailed(o, c)
  \/ \E t \in FinalEdits : setEditedFinalResult(t)
  \/ backToStep3From4
  \/ backToStep2From4
  \/ newWorkWithFile
  \/ newWorkWithoutFile
  \/ \E o \in pending, r \in BOOLEAN : saveGetDone(o, r)
  \/ \E o \in pending, r \in BOOLEAN : savePutDone(o, r)
  \/ \E i \in HistoryPicks : restoreSession(i)
  \/ \E o \in pending, r \in BOOLEAN : restoreSessionDone(o, r)
  \/ \E i \in HistoryPicks : deleteSession(i)
  \/ \E o \in pending, r \in BOOLEAN : deleteSessionDone(o, r)
  \/ Reload

Spec == Init /\ [][Next]_vars

\* a visit to a browser whose history is full
\* one call of each kind after a restore; a new work taken to its final text
\* and saved; a restore, a deletion and a save
StoreBudgets ==
  { Budget(MaxOps - 1, MaxOps - 1, MaxStoreOps, 0, 0),
    Budget(0, MaxOps, 0, MaxStoreOps, 0),
    Budget(0, 0, MaxStoreOps, MaxStoreOps, MaxStoreOps) }

InitStore == \E b \in StoreBudgets : InitWith(MAX_SESSIONS, b)

StoreSpec == InitStore /\ [][Next]_vars

\* the Step 1 form alone: every objects text of up to MaxObjectsLen
\* characters, an impression that is a word or a blank, a file or none
ObjectTokens == {"A", "B", " ", ",", "TOUTEN", "FWCOMMA", "\n", "JINBUTSU", "DARE"}

SeqsUpTo(S, n) == UNION {[1..k -> S] : k \in 0..n}

FormObjects == SeqsUpTo(ObjectTokens, MaxObjectsLen)

FormImpressions == {<<"calm">>, <<" ">>}

FormInit == InitWith(0, Budget(0, 0, 0, 0, 0))

FormNext ==
  \/ \E f \in FileChoices : SetFile(f)
  \/ \E t \in FormImpressions : SetImpression(t)
  \/ \E t \in FormObjects : SetObjects(t)
  \/ startStep2

FormSpec == FormInit /\ [][FormNext]_vars

\* Steps 1 and 2 with the history panel and the "new work" button: three
\* dialogue calls around one restore and one save
DeepenInit == \E n \in {0, 1} : InitWith(n, Budget(MaxOps + 1, 0, MaxStoreOps, MaxStoreOps, 0))

DeepenNext ==
  \/ \E f \in FileChoices : SetFile(f)
  \/ \E t \in ImpressionTexts : SetImpression(t)
  \/ \E t \in ObjectsTexts : SetObjects(t)
  \/ startStep2
  \/ \E obj \in CardLabels : selectS2ObjectResume(obj)
  \/ \E obj \in CardLabels : selectS2ObjectKickoff(obj)
  \/ \E o \in pending, r \in DialogReplies : selectS2ObjectReply(o, r)
  \/ \E o \in pending : dialogueFailed(o)
  \/ \E t \in ChatTexts : sendS2Chat(t)
  \/ \E o \in pending, r \in DialogReplies : sendS2ChatReply(o, r)
  \/ completeCurrentObject
  \/ backToS2List
  \/ backToStep2From4
  \/ newWorkWithFile
  \/ newWorkWithoutFile
  \/ \E o \in pending, r \in BOOLEAN : saveGetDone(o, r)
  \/ \E o \in pending, r \in BOOLEAN : savePutDone(o, r)
  \/ \E i \in HistoryPicks : restoreSession(i)
  \/ \E o \in pending, r \in BOOLEAN : restoreSessionDone(o, r)

DeepenSpec == DeepenInit /\ [][DeepenNext]_vars

\* ------------------------------------------------------- saves of a visit
\* A visit after one earlier save: a restore, a deletion and two saves,
\* which may overlap.
SaveInit == InitWith(1, Budget(0, 0, MaxStoreOps, MaxStoreOps + 1, MaxStoreOps))

SaveNext ==
  \/ \E t \in FinalEdits : setEditedFinalResult(t)
  \/ backToStep3From4
  \/ backToStep2From4
  \/ newWorkWithFile
  \/ newWorkWithoutFile
  \/ \E o \in pending, r \in BOOLEAN : saveGetDone(o, r)
  \/ \E o \in pending, r \in BOOLEAN : savePutDone(o, r)
  \/ \E i \in HistoryPicks : restoreSession(i)
  \/ \E o \in pending, r \in BOOLEAN : restoreSessionDone(o, r)
  \/ \E i \in HistoryPicks : deleteSession(i)
  \/ \E o \in pending, r \in BOOLEAN : deleteSessionDone(o, r)

SaveSpec == SaveInit /\ [][SaveNext]_vars

\* ------------------------------------------------- Step 3 dialogues of a visit
\* A visit after one earlier save: one dialogue call, two restores and a
\* save, with the Step 3 and Step 4 handlers that need no other call.
ExploreInit == InitWith(1, Budget(MaxOps - 1, 0, MaxStoreOps + 1, MaxStoreOps, 0))

ExploreNext ==
  \/ \E i \in 1..Len(st.s3SavedViews) : openSavedViewResume(i)
  \/ \E i \in 1..Len(st.s3SavedViews) : openSavedView(i)
  \/ \E o \in pending, r \in DialogReplies : s3ChatReply(o, r)
  \/ \E o \in pending : dialogueFailed(o)
  \/ \E t \in ChatTexts : sendS3Chat(t)
  \/ backToS3List
  \/ backToStep2From3
  \/ \E t \in FinalEdits : setEditedFinalResult(t)
  \/ backToStep3From4
  \/ backToStep2From4
  \/ newWorkWithFile
  \/ newWorkWithoutFile
  \/ \E o \in pending, r \in BOOLEAN : saveGetDone(o, r)
  \/ \E o \in pending, r \in BOOLEAN : savePutDone(o, r)
  \/ \E i \in HistoryPicks : restoreSession(i)
  \/ \E o \in pending, r \in BOOLEAN : restoreSessionDone(o, r)

ExploreSpec == ExploreInit /\ [][ExploreNext]_vars

\* the text functions alone, applied to every reply of up to MaxReplyLen
\* tokens and to every candidates array of up to MaxCandidates elements
ParserTokens == {"{", "}", "[", "]", "m", "x", "c:X", "c:X/noev"}

CandidateArrays ==
  {<<"{", "[">> \o e \o <<"]", "}">> : e \in SeqsUpTo(CandTokens, MaxCandidates)}

ParserTexts == SeqsUpTo(ParserTokens, MaxReplyLen) \cup CandidateArrays

NormalizerTokens == {Fence, "json", "{", "}", "q=a", "q=FENCE", "q= ", "m", " ", "x"}

NormalizerTexts == SeqsUpTo(NormalizerTokens, MaxReplyLen)

Component == <<st, sessions, ls, idb, pending, clock, nOps, lim, saved, regens, opened>>

\* the reply that has arrived is handed to the parser (line 791) or to the
\* normalizer (lines 722, 741, 847, 874, 897)
CallSafeParseCandidates ==
  /\ applied.fn = "none" /\ applied.input \in ParserTexts
  /\ applied' = [applied EXCEPT !.fn = "safeParseCandidates",
                                !.output = safeParseCandidates(applied.input)]
  /\ UNCHANGED <<Component, route>>

CallNormalizeAssistantText ==
  /\ applied.fn = "none" /\ applied.input \in NormalizerTexts
  /\ applied' = [applied EXCEPT !.fn = "normalizeAssistantText",
                                !.output = normalizeAssistantText(applied.input)]
  /\ UNCHANGED <<Component, route>>

TextInit ==
  /\ st = InitialState /\ ls = << >> /\ sessions = << >> /\ idb = {}
  /\ pending = {} /\ clock = 2
  /\ nOps = Budget(0, 0, 0, 0, 0) /\ lim = Budget(0, 0, 0, 0, 0)
  /\ saved = << >> /\ regens = NoRegens /\ opened = {}
  /\ route = IdleRoute
  /\ \E text \in ParserTexts \cup NormalizerTexts :
       applied = [NotApplied EXCEPT !.input = text]

TextNext ==
  \/ CallSafeParseCandidates
  \/ CallNormalizeAssistantText

TextSpec == TextInit /\ [][TextNext]_vars

\* the chat endpoint alone, serving one request
UpstreamTokens ==
  {"a", "MOUSHIWAKE", "GAZOU", "GUTAITEKI", "TEIKYO-DEKIMASEN",
   "TEIKYO-SURUKOTOWA-DEKIMASEN", "OTETSUDAI-DEKIMASEN", "HITO-WO-TOKUTEI"}

\* the reply "MOUSHIWAKE, GUTAITEKI JOUHOU-WO TEIKYO-DEKIMASEN": apology and
\* "cannot provide concrete information"
ApologyCannotProvide ==
  <<"MOUSHIWAKE", "TOUTEN", "GUTAITEKI", "JOUHOU-WO", "TEIKYO-DEKIMASEN">>

UpstreamTexts ==
  SeqsUpTo(UpstreamTokens, MaxUpstreamLen)
    \cup {ApologyCannotProvide, <<"MOUSHIWAKE", "GAZOU", "GUTAITEKI">>}

\* a dialogue longer than the window: user and assistant turns in turn, each
\* with its number as content; the assistant turns 2 and 20 are refusals
LongDialogue ==
  [i \in 1..MaxRequestLen |->
     ChatMessage(IF i % 2 = 1 THEN "user" ELSE "assistant",
                 IF i \in {2, 20} THEN <<"OTETSUDAI-DEKIMASEN", ToString(i)>>
                 ELSE <<ToString(i)>>)]

RequestLists ==
  { << >>,
    LongDialogue,
    <<ChatMessage("system", <<"STEP">>)>> \o SubSeq(LongDialogue, 1, 5)
      \o << ChatMessage("system", <<"STEP2">>),
            ChatMessage("system", <<"APP_POLICY_V2", "extra">>),
            ChatMessage("system", <<"APP_POLICY_V2">>) >>
      \o SubSeq(LongDialogue, 6, MaxRequestLen),
    << ChatMessage("system", <<"STEP">>), ChatMessage("user", <<"u">>) >>,
    << ChatMessage("system", <<"STEP">>), ChatMessage("user", <<"u">>),
       ChatMessage("assistant", <<"OTETSUDAI-DEKIMASEN">>), ChatMessage("user", <<"u">>) >>,
    << ChatMessage("system", <<"APP_POLICY_V2">>), ChatMessage("assistant", <<"a">>) >> }

\* the form has no messages field: 400 before any call (lines 174-177)
POSTMissingMessages ==
  /\ route.pc = "idle"
  /\ route' = [route EXCEPT !.pc = "done", !.response = [status |-> 400, text |-> << >>]]
  /\ UNCHANGED <<Component, applied>>

\* lines 167-251: the request is read and the first completion call made
POST(parsed, hasImage) ==
  /\ route.pc = "idle"
  /\ route' = [route EXCEPT !.pc = "first",
                            !.upstream = <<formattedMessages(parsed, hasImage)>>]
  /\ UNCHANGED <<Component, applied>>

\* lines 253-289 when the first reply arrives: a refusal is retried once
FirstReply(content) ==
  /\ route.pc = "first"
  /\ IF isRefusalLike(content)
     THEN route' = [route EXCEPT !.pc = "retry",
                                 !.text = content,
                                 !.replies = Append(@, content),
                                 !.upstream = Append(@, <<override>> \o route.upstream[1])]
     ELSE route' = [route EXCEPT !.pc = "done",
                                 !.text = content,
                                 !.replies = Append(@, content),
                                 !.response = [status |-> 200, text |-> content]]
  /\ UNCHANGED <<Component, applied>>

\* a retry whose text replaces the first text also when it is empty
RetryReplyAlways(retryText) ==
  /\ route.pc = "retry"
  /\ route' = [route EXCEPT !.pc = "done",
                            !.text = retryText,
                            !.replies = Append(@, retryText),
                            !.response = [status |-> 200, text |-> retryText]]
  /\ UNCHANGED <<Component, applied>>

\* lines 281-289 when the reply to the retry arrives
RetryReply(retryText) ==
  /\ route.pc = "retry"
  /\ LET text == IF retryText # << >> THEN retryText ELSE route.text
     IN  route' = [route EXCEPT !.pc = "done",
                                !.text = text,
                                !.replies = Append(@, retryText),
                                !.response = [status |-> 200, text |-> text]]
  /\ UNCHANGED <<Component, applied>>

\* a completion call throws: the catch block answers 500 (lines 290-293)
UpstreamFailed ==
  /\ route.pc \in {"first", "retry"}
  /\ route' = [route EXCEPT !.pc = "done", !.response = [status |-> 500, text |-> << >>]]
  /\ UNCHANGED <<Component, applied>>

RouteInit == InitWith(0, Budget(0, 0, 0, 0, 0))

RouteNext ==
  \/ POSTMissingMessages
  \/ \E parsed \in RequestLists, hasImage \in BOOLEAN : POST(parsed, hasImage)
  \/ \E content \in UpstreamTexts : FirstReply(content)
  \/ \E retryText \in UpstreamTexts : RetryReply(retryText)
  \/ UpstreamFailed

RouteSpec == RouteInit /\ [][RouteNext]_vars


\* ===================================================================== claims
\* the calls made under a phase's busy tag (loading = 2, 3 or 4)
Tagged == {o \in pending : o.tag # 0}

\* the handler of o ends in this step: no operation continues it
HandlerEnds(o) == \A o2 \in pending' : o2.n # o.n

\* C1: Busy-flag release.  When the last transport call of a handler that
\* set loading to 2, 3 or 4 completes or fails, the step that ends the
\* handler leaves loading idle, also for generateFinal nested in
\* prepareStep3; and no state without such a call in flight has loading
\* different from idle.
C1_BusyFlagRelease ==
  /\ [](Tagged = {} => st.loading = 0)
  /\ [][\A o \in Tagged : HandlerEnds(o) => st'.loading = 0]_vars

\* a failed candidate call went on to the nested final synthesis, which
\* ended, and nothing is in flight
C1_Witness ==
  /\ pending = {}
  /\ nOps.generation > 0
  /\ st.step = 4 /\ st.loading = 0
  /\ st.s3Candidates = << >> /\ st.currentSessionId = 0

\* the ledger of o's key before the user's action: a kickoff starts from no
\* turns, a follow-up from the turns before the user's
LedgerBefore(o) ==
  IF o.op \in {"sendS2Chat", "sendS3Chat"} THEN SubSeq(o.msgs, 1, Len(o.msgs) - 1) ELSE << >>

LedgerOf(w, o) ==
  IF o.op \in {"selectS2Object", "sendS2Chat"} THEN Get(w.s2Dialogs, o.key)
  ELSE Get(w.s3Dialogs, o.key)

DialogueOps == {"selectS2Object", "sendS2Chat", "startS3Chat", "openSavedView", "sendS3Chat"}

\* C2: Ledger unchanged on transport failure.  When the call of a dialogue
\* action fails, the ledger of its key is again what it was before the
\* action started: no kickoff-only entry, no dangling user turn.
C2_LedgerUnchangedOnFailure ==
  [][\A o \in pending :
       (o.op \in DialogueOps /\ dialogueFailed(o)) => LedgerOf(st', o) = LedgerBefore(o)]_vars

\* C3: Single flight per phase.  For each phase tag at most one transport
\* call issued under it is in flight.
C3_SingleFlight ==
  \A t \in {2, 3, 4} : Cardinality({o \in pending : o.tag = t}) <= 1

\* the fields of C4 agree between a working state or record a and b
SameWork(a, b) ==
  /\ a.impression = b.impression /\ a.objects = b.objects
  /\ a.s2Summary = b.s2Summary /\ a.s3Summary = b.s3Summary
  /\ a.s2Dialogs = b.s2Dialogs /\ a.s3Dialogs = b.s3Dialogs

Listed(list, x) == \E i \in 1..Len(list) : list[i] = x

C8_SavedViewLabelsUnique == NoDup(LabelsOf(st.s3SavedViews))

\* two recordings overlap: the earlier one (the operation started right
\* after the first restore) is still in flight when a later one has
\* rewritten the first viewpoint
C8_Witness ==
  /\ \E o \in pending : o.op = "recordS3Summary" /\ o.n = 2
  /\ nOps.generation = 2
  /\ Len(st.s3SavedViews) = 2
  /\ st.s3SavedViews[1].label = <<"X">> /\ st.s3SavedViews[1].savedAt > 1

\* C9: Saved-view upsert.  A recording of a label already in s3SavedViews
\* replaces that entry where it is, with the new summary and the time of
\* this recording, and leaves the length and the other entries alone; a
\* recording of a label not in the list appends exactly one entry.
C9_SavedViewUpsert ==
  [][\A o \in pending, sum \in SummaryReplies :
       recordS3SummaryReply(o, sum) =>
         LET prev == st.s3SavedViews
             next == st'.s3SavedViews
             Mine(v) == /\ v.label = o.base.label /\ v.summary = sum /\ v.savedAt = clock
         IN  IF \E i \in 1..Len(prev) : prev[i].label = o.base.label
             THEN /\ Len(next) = Len(prev)
                  /\ \A i \in 1..Len(prev) :
                       IF prev[i].label = o.base.label THEN Mine(next[i]) ELSE next[i] = prev[i]
             ELSE /\ Len(next) = Len(prev) + 1
                  /\ SubSeq(next, 1, Len(prev)) = prev
                  /\ Mine(next[Len(next)])]_vars

\* the first viewpoint of a restored session was recorded again: it is
\* still the first, the second is as it was stored
C9_Witness ==
  /\ Len(st.s3SavedViews) = 2
  /\ st.s3SavedViews[1].label = <<"X">> /\ st.s3SavedViews[1].savedAt > 1
  /\ st.s3SavedViews[2] = EarlierWork.s3SavedViews[2]

\* C10: Exclusion set on regeneration.  The exclusion list a regeneration
\* passes to its candidate call holds, as a set, the labels of every
\* candidate list shown before each regeneration since the list was last
\* emptied (the previous exclusion list) and the labels of all saved views,
\* and no label twice.
C10_ExclusionOnRegeneration ==
  [][(regenerateStep3 /\ st.file # "none") =>
       \E o \in pending' \ pending :
         /\ o.op = "prepareStep3" /\ o.regen
         /\ SeqToSet(o.excl) = regens'.shown \cup SeqToSet(LabelsOf(st.s3SavedViews))
         /\ NoDup(o.excl)
         /\ st'.s3ExcludedLabels = o.excl]_vars

\* the call of a second regeneration in a row is in flight, and the first
\* one had shown a candidate that is not a saved view
C10_Witness ==
  /\ regens.count = 2
  /\ <<"Z">> \in regens.shown
  /\ \E o \in pending : o.op = "prepareStep3" /\ o.regen /\ <<"Z">> \in SeqToSet(o.excl)

SavePending == \E o \in pending : o.op \in {"savePut", "saveGet"}

\* C5: Eviction on overflow.  A save of a session with a new id onto a
\* list of 20 removes exactly one prior session, the one with the smallest
\* updatedAt; and once the save has ended no thumbnail blob is left under
\* an id that is not in the list (no deletion, the other way a session
\* leaves the list, was started).
C5_EvictionOnOverflow ==
  /\ [][(/\ Len(sessions) = MAX_SESSIONS
          /\ Len(sessions') > 0
          /\ sessions'[1].id \notin Ids(sessions))
        => LET gone == {i \in 1..Len(sessions) : sessions[i].id \notin Ids(sessions')}
           IN  /\ Cardinality(gone) = 1
               /\ \A g \in gone, i \in 1..Len(sessions) :
                    sessions[g].updatedAt <= sessions[i].updatedAt]_vars
  /\ []((~SavePending /\ nOps.delete = 0) => idb \subseteq Ids(sessions))

\* C6: Session cap.  The in-memory session list and the list written to
\* localStorage each hold at most 20 sessions.
C6_SessionCap == Len(sessions) <= MAX_SESSIONS /\ Len(ls) <= MAX_SESSIONS

\* a new work was saved onto a full list: its record is the head, the list
\* still holds 20, the oldest session is gone
C6_Witness ==
  /\ Len(sessions) = MAX_SESSIONS /\ Len(ls) = MAX_SESSIONS
  /\ sessions[1].id = MAX_SESSIONS + 1
  /\ 1 \notin Ids(sessions)

\* C7: Recency order.  updatedAt is non-increasing from the head to the
\* tail of the session list.
C7_RecencyOrder ==
  \A i, j \in 1..Len(sessions) : i < j => sessions[i].updatedAt >= sessions[j].updatedAt

\* C11: Candidate deduplication.  When a candidate-generation call returns,
\* no candidate of the displayed list has a label of the exclusion list
\* passed to the call or the label of a saved view.
C11_CandidateDeduplication ==
  [][\A o \in pending, out \in CandidateReplies, c \in BOOLEAN :
       prepareStep3Reply(o, out, c) =>
         \A i \in 1..Len(st'.s3Candidates) :
           st'.s3Candidates[i].label \notin
             SeqToSet(o.excl) \cup SeqToSet(LabelsOf(st'.s3SavedViews))]_vars

C13_SynthesisNeverBlocked ==
  [][\A o \in pending, c \in BOOLEAN :
       (generateFinalFailed(o, c) /\ o.nest = "none" /\ o.stage \in {"s2", "s3"}) =>
         \E o2 \in pending' :
           /\ o2.n = o.n /\ o2.op = "generateFinal"
           /\ o2.stage = IF o.stage = "s2" THEN StageAfterS2(o.cl) ELSE "final"
           /\ o2.stage = "final" =>
                o2.msgs = buildFinalMessages(
                            o.cl.impression, o.cl.objects,
                            OrText(o.freshS2, OrText(o.cl.s2Summary, <<"(STEP2-UNRECORDED)">>)),
                            OrText(o.cl.s3Summary, <<"(STEP3-UNRECORDED)">>))]_vars

\* fresh, else cached, else the placeholder
Preferred(fresh, cached, placeholder) ==
  IF fresh # << >> THEN fresh ELSE IF cached # << >> THEN cached ELSE placeholder

\* the messages of the synthesis call of a generateFinal run in the render
\* state w whose summarization calls gave freshS2 and freshS3
SynthesisOf(w, freshS2, freshS3) ==
  buildFinalMessages(w.impression, w.objects,
                     Preferred(freshS2, w.s2Summary, <<"(STEP2-UNRECORDED)">>),
                     Preferred(freshS3, w.s3Summary, <<"(STEP3-UNRECORDED)">>))

\* C14: Summary precedence in synthesis.  The synthesis call carries, for
\* each of the two summaries, the fresh text when non-empty, else the cached
\* one when non-empty, else the placeholder; the saved-views summarization
\* is asked only about the saved views with a non-empty summary; and a
\* cached summary is overwritten only by a non-empty fresh one.
C14_SummaryPrecedence ==
  /\ [](\A o \in pending :
          /\ (o.op = "generateFinal" /\ o.stage = "final") =>
                o.msgs = SynthesisOf(o.cl, o.freshS2, o.freshS3)
          /\ (o.op = "generateFinal" /\ o.stage = "s3") =>
                o.msgs = buildStep3SummarizeFromSavedViewsMessages(
                           SelectSeq(o.cl.s3SavedViews, LAMBDA v : Trim(v.summary) # << >>)))
  /\ [][\A o \in pending, sum \in SummaryReplies :
          generateFinalSummaryReply(o, sum) =>
            /\ \E o2 \in pending' :
                 /\ o2.n = o.n
                 /\ o2.freshS2 = IF o.stage = "s2" THEN Trim(sum) ELSE o.freshS2
                 /\ o2.freshS3 = IF o.stage = "s3" THEN Trim(sum) ELSE o.freshS3
            /\ st'.s2Summary = IF o.stage = "s2" /\ Trim(sum) # << >>
                                THEN Trim(sum) ELSE st.s2Summary
            /\ st'.s3Summary = IF o.stage = "s3" /\ Trim(sum) # << >>
                                THEN Trim(sum) ELSE st.s3Summary]_vars

\* a synthesis call in flight that carries a fresh Step 2 summary different
\* from the cached one, and the cached Step 3 summary because the fresh one
\* came back empty
C14_Witness ==
  \E o \in pending :
    /\ o.op = "generateFinal" /\ o.stage = "final"
    /\ o.freshS2 # << >> /\ o.cl.s2Summary # << >> /\ o.freshS2 # o.cl.s2Summary
    /\ o.freshS3 = << >> /\ o.cl.s3Summary # << >>
    /\ Len(Recorded(o.cl.s3SavedViews)) > 0

\* C15: Observe to Deepen guard and effect.  The step goes from 1 to 2 only
\* with a file, a non-empty impression and a non-empty objects text, and
\* right after the step s2Dialogs, s3Dialogs, s3SavedViews and the exclusion
\* list are empty.
C15_ObserveToDeepen ==
  [][(st.step = 1 /\ st'.step = 2) =>
       /\ st.file # "none" /\ st.impression # << >> /\ st.objects # << >>
       /\ st'.s2Dialogs = << >> /\ st'.s3Dialogs = << >>
       /\ st'.s3SavedViews = << >> /\ st'.s3ExcludedLabels = << >>]_vars

\* C16: Object cards from objects text.  On the Observe to Deepen transition
\* the cards are the non-empty trimmed segments of the objects text as
\* typed, split on the delimiters, in order, none completed; and there is
\* at least one card.
C16_ObjectCards ==
  [][startStep2 =>
       LET typed == splitObjects(st.objects)
       IN  /\ st'.s2Cards = [i \in 1..Len(typed) |-> [label |-> typed[i], completed |-> FALSE]]
           /\ Len(st'.s2Cards) >= 1]_vars

\* a ledger as a kickoff leaves it: a hidden system turn, then a hidden user turn
IsKickoffLedger(msgs) ==
  /\ Len(msgs) = 2
  /\ msgs[1].role = "system" /\ msgs[1].hidden
  /\ msgs[2].role = "user" /\ msgs[2].hidden

\* the step issues no transport call and leaves every ledger as it was
NoCallNoLedgerChange ==
  /\ pending' = pending
  /\ st'.s2Dialogs = st.s2Dialogs
  /\ st'.s3Dialogs = st.s3Dialogs

\* the step creates the ledger of key k in the map d (d2 after the step) as a
\* kickoff ledger and issues exactly one call, which carries that ledger
KicksOff(d, d2, k) ==
  /\ ~HasKey(d, k) /\ HasKey(d2, k)
  /\ IsKickoffLedger(Get(d2, k))
  /\ pending \subseteq pending'
  /\ Cardinality(pending' \ pending) = 1
  /\ \A o \in pending' \ pending : o.key = k /\ o.msgs = Get(d2, k)

\* the ledger of the call's key is the call's kickoff and one assistant turn
OneAssistantTurnAppended(d2, o) ==
  /\ HasKey(d2, o.key)
  /\ Len(Get(d2, o.key)) = 3
  /\ SubSeq(Get(d2, o.key), 1, 2) = o.msgs
  /\ IsKickoffLedger(o.msgs)
  /\ Get(d2, o.key)[3].role = "assistant"

\* C17: selecting an object, a candidate or a saved view whose ledger exists
\* issues no transport call and leaves every ledger unchanged; selecting a
\* key without a ledger creates a ledger of a hidden system turn and a hidden
\* user turn and issues exactly one call; when that call succeeds the ledger
\* is the kickoff followed by exactly one assistant turn.
C17_ResumeVersusKickoff ==
  [][ /\ \A obj \in CardLabels :
           (selectS2ObjectResume(obj) \/ selectS2ObjectKickoff(obj)) =>
             IF HasKey(st.s2Dialogs, obj)
             THEN NoCallNoLedgerChange
             ELSE KicksOff(st.s2Dialogs, st'.s2Dialogs, obj) /\ st'.s3Dialogs = st.s3Dialogs
      /\ \A i \in 1..Len(st.s3Candidates) :
           (startS3ChatResume(i) \/ startS3Chat(i)) =>
             IF HasKey(st.s3Dialogs, st.s3Candidates[i].label)
             THEN NoCallNoLedgerChange
             ELSE KicksOff(st.s3Dialogs, st'.s3Dialogs, st.s3Candidates[i].label)
                  /\ st'.s2Dialogs = st.s2Dialogs
      /\ \A i \in 1..Len(st.s3SavedViews) :
           (openSavedViewResume(i) \/ openSavedView(i)) =>
             IF HasKey(st.s3Dialogs, st.s3SavedViews[i].label)
             THEN NoCallNoLedgerChange
             ELSE KicksOff(st.s3Dialogs, st'.s3Dialogs, st.s3SavedViews[i].label)
                  /\ st'.s2Dialogs = st.s2Dialogs
      /\ \A o \in pending :
           /\ (\E r \in DialogReplies : selectS2ObjectReply(o, r)) =>
                 OneAssistantTurnAppended(st'.s2Dialogs, o)
           /\ (o.op \in {"startS3Chat", "openSavedView"}
                 /\ \E r \in DialogReplies : s3ChatReply(o, r)) =>
                 OneAssistantTurnAppended(st'.s3Dialogs, o) ]_vars

\* after a restore the ledger of B was kicked off and answered with the one
\* call of the visit, and A, whose ledger the session brought, is open again
C17_Witness ==
  /\ st.currentSessionId # 0 /\ st.step = 2
  /\ nOps.dialogue = 1 /\ pending = {}
  /\ st.s2CurrentObject = <<"A">>
  /\ HasKey(st.s2Dialogs, <<"A">>)
  /\ HasKey(st.s2Dialogs, <<"B">>)
  /\ Len(Get(st.s2Dialogs, <<"B">>)) = 3

\* C18: between one Observe to Deepen transition and the next, a Deepen call
\* carries the source image if and only if it is the kickoff of the first
\* object opened in the phase, counting the objects a restored session had
\* opened and not counting a kickoff that failed; follow-up messages carry
\* no image.
C18_ImageAttachmentPolicy ==
  [][ /\ \A obj \in CardLabels :
           selectS2ObjectKickoff(obj) =>
             \A o \in pending' \ pending :
               o.img = IF opened = {} THEN st.file ELSE "none"
      /\ \A t \in ChatTexts :
           sendS2Chat(t) => \A o \in pending' \ pending : o.img = "none" ]_vars

\* C19: in every state of Step 3 the Step 2 summary is non-empty, and every
\* candidate-generation call is issued with a non-empty Step 2 summary.
C19_ExploreRequiresSummary ==
  /\ [](st.step = 3 => st.s2Summary # << >>)
  /\ [][\A o \in pending' \ pending :
           o.op = "prepareStep3" => st.s2Summary # << >>]_vars

\* every ledger of the map has turns and begins with the hidden system turn
\* of its kickoff
LedgersSeeded(d) ==
  \A i \in 1..Len(d) :
    /\ d[i].msgs # << >>
    /\ d[i].msgs[1].role = "system" /\ d[i].msgs[1].hidden

\* C20: in every reachable state every key of s2Dialogs and of s3Dialogs maps
\* to a non-empty sequence of turns whose first turn is the hidden system
\* turn of the kickoff.
C20_LedgersNeverEmpty == LedgersSeeded(st.s2Dialogs) /\ LedgersSeeded(st.s3Dialogs)

\* the brace-to-brace span of the text, << >> when the text has none
SpanOf(text) ==
  LET first == IndexOf(text, "{")
      last  == LastIndexOf(text, "}")
  IN  IF first = 0 \/ last = 0 \/ last <= first THEN << >> ELSE SubSeq(text, first, last)

\* the span is JSON with a candidates array
HasCandidatesArray(text) ==
  /\ SpanOf(text) # << >>
  /\ JsonCandidates(SpanOf(text)).ok
  /\ JsonCandidates(SpanOf(text)).isArray

ElementsOf(text) == JsonCandidates(SpanOf(text)).elems

\* the element has the four fields and none of them is blank
Complete(tok) ==
  /\ HasFourFields(tok)
  /\ Trim(CoercedFields(tok).label) # << >>
  /\ Trim(CoercedFields(tok).element) # << >>
  /\ Trim(CoercedFields(tok).location) # << >>
  /\ Trim(CoercedFields(tok).evidence) # << >>

\* C21: for every text whose brace-to-brace span is JSON with a candidates
\* array in which every element has the four fields (none of them blank),
\* safeParseCandidates returns the list of the same length and order whose
\* fields are the string coercion of the input fields: no element is
\* dropped, no label is changed.
C21_ParserReturnsListAsGiven ==
  ( /\ applied.fn = "safeParseCandidates"
    /\ HasCandidatesArray(applied.input)
    /\ \A i \in 1..Len(ElementsOf(applied.input)) :
         Complete(ElementsOf(applied.input)[i]) )
  => /\ Len(applied.output) = Len(ElementsOf(applied.input))
     /\ \A i \in 1..Len(applied.output) :
          applied.output[i] = CoercedFields(ElementsOf(applied.input)[i])

\* C22: safeParseCandidates returns the no-candidates result when the text
\* has no brace-to-brace span, when the span is not JSON, when candidates is
\* not an array and when every element lacks one of the four fields; an
\* element of a returned list has no empty field.
C22_ParserDegrades ==
  applied.fn = "safeParseCandidates" =>
    /\ ( \/ ~HasCandidatesArray(applied.input)
         \/ \A i \in 1..Len(ElementsOf(applied.input)) :
              ~HasFourFields(ElementsOf(applied.input)[i]) )
       => applied.output = << >>
    /\ \A i \in 1..Len(applied.output) :
         /\ applied.output[i].label # << >>
         /\ applied.output[i].element # << >>
         /\ applied.output[i].location # << >>
         /\ applied.output[i].evidence # << >>

\* an array of an element without evidence and a complete one: the parser
\* returned the complete one alone
C22_Witness ==
  /\ applied.fn = "safeParseCandidates"
  /\ applied.input = <<"{", "[", "c:X/noev", "c:Y", "]", "}">>
  /\ Len(applied.output) = 1
  /\ applied.output[1].label = <<"Y">>

\* C23: the text normalizeAssistantText returns contains no code-fence
\* marker, also when it is a question field taken from JSON or by the
\* regular expression.
C23_NoFenceInNormalizedText ==
  applied.fn = "normalizeAssistantText" => Fence \notin SeqToSet(applied.output)

\* C24: when the first upstream reply is the text "MOUSHIWAKE, GUTAITEKI
\* JOUHOU-WO TEIKYO-DEKIMASEN" (apology and inability to provide, no word
\* for image, no person wording), isRefusalLike classifies it as a refusal
\* and the endpoint issues exactly one retry call whose message list is the
\* override system turn followed by the message list of the first call.
C24_RefusalScenario ==
  (route.replies # << >> /\ route.replies[1] = ApologyCannotProvide) =>
    /\ isRefusalLike(ApologyCannotProvide)
    /\ Len(route.upstream) = 2
    /\ route.upstream[2] = <<override>> \o route.upstream[1]

\* C25: the endpoint makes at most two upstream calls for a request; the
\* second is made if and only if the first reply is classified as a refusal;
\* the text returned is the retry text when that is non-empty (a refusal or
\* not) and the first reply when the retry text is empty: one text, never
\* both.
C25_BoundedRefusalRetry ==
  /\ Len(route.upstream) <= 2
  /\ Len(route.replies) <= Len(route.upstream)
  /\ Len(route.upstream) = 2 <=> (route.replies # << >> /\ isRefusalLike(route.replies[1]))
  /\ route.response.status = 200 =>
       /\ route.pc = "done"
       /\ route.response.text =
            IF Len(route.replies) = 2 /\ route.replies[2] # << >>
            THEN route.replies[2] ELSE route.replies[1]
  /\ route.pc = "done" => route.response.status \in {200, 400, 500}

\* a refusal was retried and the retry returned nothing: the endpoint
\* answered with the first text
C25_Witness ==
  /\ route.pc = "done" /\ route.response.status = 200
  /\ Len(route.upstream) = 2 /\ Len(route.replies) = 2
  /\ route.replies[2] = << >>
  /\ route.response.text = route.replies[1]
  /\ route.upstream[2] = <<override>> \o route.upstream[1]

SavedAsUpsert(cur, now) ==
  IF cur # 0
  THEN /\ Len(sessions') = Len(sessions)
       /\ \E i \in 1..Len(sessions) :
            /\ sessions[i].id = cur /\ sessions'[i].id = cur
            /\ sessions'[i].createdAt = sessions[i].createdAt
            /\ sessions'[i].updatedAt = now
  ELSE /\ Len(sessions') = Len(sessions) + 1
       /\ Cardinality(Ids(sessions') \ Ids(sessions)) = 1
       /\ Ids(sessions') \cap idb = Ids(sessions) \cap idb

\* C27: a save made while a restored session is current replaces the record
\* with that id, keeps its createdAt, sets updatedAt to the time of the save
\* and leaves the number of sessions unchanged; a save with no current
\* session adds exactly one record under a fresh id; after the save and the
\* reset to Step 1 no session is current.
C27_SaveIsUpsertById ==
  [][ /\ newWorkWithFile => SavedAsUpsert(st.currentSessionId, clock)
      /\ \A o \in pending :
           /\ (\E r \in BOOLEAN : saveGetDone(o, r)) =>
                 SavedAsUpsert(o.cl.currentSessionId, o.at)
           /\ (\E r \in BOOLEAN : saveGetDone(o, r) \/ savePutDone(o, r)) =>
                 st'.currentSessionId = 0 /\ st'.step = 1 ]_vars

\* the step puts another work, or none, in place of the current one
WorkReplaced ==
  \/ \E o \in pending, r \in BOOLEAN :
        restoreSessionDone(o, r) \/ saveGetDone(o, r) \/ savePutDone(o, r)
  \/ Reload

\* C28: editing the final text changes editedFinalResult alone; within a
\* work only a successful generateFinal sets finalResult, and it sets
\* editedFinalResult to the same text; a failed generateFinal leaves both
\* texts unchanged, and the step too (a failure inside prepareStep3 is
\* handled by the catch block of prepareStep3).
C28_IndependentEditableFinalText ==
  [][ /\ \A t \in FinalEdits :
           setEditedFinalResult(t) =>
             /\ st'.editedFinalResult = t
             /\ st' = [st EXCEPT !.editedFinalResult = t]
      /\ (st'.finalResult # st.finalResult /\ ~WorkReplaced) =>
           \E o \in pending, out \in FinalReplies : generateFinalReply(o, out)
      /\ \A o \in pending, out \in FinalReplies :
           generateFinalReply(o, out) =>
             st'.finalResult = out /\ st'.editedFinalResult = out
      /\ \A o \in pending, c \in BOOLEAN :
           generateFinalFailed(o, c) =>
             /\ st'.finalResult = st.finalResult
             /\ st'.editedFinalResult = st.editedFinalResult
             /\ o.nest # "try" => st'.step = st.step ]_vars

\* the final text of a restored work was generated again and then edited
C28_Witness ==
  /\ st.step = 4 /\ pending = {} /\ nOps.generation = 1
  /\ st.s2Summary = <<"s">>
  /\ st.finalResult = <<"f">>
  /\ st.editedFinalResult = <<"edited">>

\* C29: recordS3Summary sets savingS3 and nothing else, and never changes
\* loading; no recording starts while savingS3 is set; savingS3 is cleared
\* when the summarization call returns or fails; when it fails the saved
\* views are unchanged.
C29_RecordingUsesItsOwnFlag ==
  [][ /\ recordS3Summary => st' = [st EXCEPT !.savingS3 = TRUE]
      /\ \A o \in pending' \ pending : o.op = "recordS3Summary" => ~st.savingS3
      /\ \A o \in pending :
           /\ (\E sum \in SummaryReplies : recordS3SummaryReply(o, sum)) =>
                 ~st'.savingS3 /\ st'.loading = st.loading
           /\ recordS3SummaryFailed(o) =>
                 /\ ~st'.savingS3 /\ st'.loading = st.loading
                 /\ st'.s3SavedViews = st.s3SavedViews ]_vars

\* a recording is in flight: savingS3 is set and loading is idle
C29_Witness ==
  /\ st.savingS3 /\ st.loading = 0
  /\ \E o \in pending : o.op = "recordS3Summary"

\* the fields the new-work action leaves empty
IsReset(w) ==
  /\ w.step = 1 /\ w.loading = 0
  /\ w.impression = << >> /\ w.objects = << >> /\ w.s2Cards = << >>
  /\ w.s2Dialogs = << >> /\ w.s3Dialogs = << >> /\ w.s3SavedViews = << >>
  /\ w.s2Summary = << >> /\ w.s3Summary = << >> /\ w.finalResult = << >>
  /\ w.s3ExcludedLabels = << >> /\ w.currentSessionId = 0

\* C30: the step that ends the new-work action (the save, then resetToStep1)
\* leaves step 1, loading idle, no impression, objects or cards, empty
\* ledgers, no saved views, empty summaries, no exclusions and no current
\* session id; and the return of a transport call that was in flight at the
\* reset leaves the reset state so: it adds no ledger entry and no summary.
C30_FullResetToObserve ==
  [][ \A o \in pending :
        /\ (o.op \in {"saveGet", "savePut"} /\ o \notin pending' /\ ~Reload) => IsReset(st')
        /\ ( /\ KindOf(o.op) \in {"dialogue", "generation"}
             /\ o \notin pending' /\ ~Reload
             /\ IsReset(st) ) => IsReset(st') ]_vars

PrefixOf(a, b) == Len(a) <= Len(b) /\ SubSeq(b, 1, Len(a)) = a

\* the step is one of the clearing operations: Observe to Deepen, reset,
\* restore (or the page is loaded anew)
Clearing == startStep2 \/ WorkReplaced

\* every ledger of d is a prefix of the ledger of its key in d2
Extends(d, d2) == \A k \in Keys(d) : PrefixOf(Get(d, k), Get(d2, k))

\* C31: Ledgers are append-only.  On every step that is not a clearing
\* operation each ledger of s2Dialogs and s3Dialogs before the step is a
\* prefix of the ledger of its key after the step; and when the call of a
\* dialogue action returns, the ledger of its key is the ledger before the
\* action, then the user turn (kickoff: the two hidden turns), then one
\* assistant turn.
C31_LedgersAppendOnly ==
  [][ ~Clearing =>
        /\ Extends(st.s2Dialogs, st'.s2Dialogs)
        /\ Extends(st.s3Dialogs, st'.s3Dialogs)
        /\ \A o \in pending :
             (o.op \in DialogueOps /\ o \notin pending' /\ ~dialogueFailed(o)) =>
               LET after == LedgerOf(st', o)
                   added == SubSeq(after, Len(LedgerBefore(o)) + 1, Len(after))
               IN  /\ PrefixOf(LedgerBefore(o), after)
                   /\ Len(added) = IF o.op \in {"sendS2Chat", "sendS3Chat"} THEN 2 ELSE 3
                   /\ added[Len(added)].role = "assistant"
                   /\ \A i \in 1..(Len(added) - 1) :
                        IF o.op \in {"sendS2Chat", "sendS3Chat"}
                        THEN added[i].role = "user" /\ ~added[i].hidden
                        ELSE added[i].hidden ]_vars

\* C32: Delete removes the record.  The step that confirms deleteSession(id)
\* leaves no session with that id in the session list and in the stored
\* list; none is there while the blob deletion is awaited nor when it has
\* ended, whether it succeeded or not; and when the handler ends, the
\* deleted id is not the current session id.
C32_DeleteRemovesRecord ==
  [][ /\ \A i \in 1..Len(sessions) :
           deleteSession(i) => sessions[i].id \notin Ids(sessions') \cup Ids(ls')
      /\ \A o \in pending :
           o.op = "deleteSession" =>
             /\ ~Reload => o.sid \notin Ids(sessions') \cup Ids(ls')
             /\ \A deleted \in BOOLEAN :
                  deleteSessionDone(o, deleted) => st'.currentSessionId # o.sid ]_vars

WithoutImage(msgs) == [i \in 1..Len(msgs) |-> [msgs[i] EXCEPT !.image = FALSE]]

LastOf(s, n) == IF Len(s) > n THEN SubSeq(s, Len(s) - n + 1, Len(s)) ELSE s

\* out is the windowed form of the input list: one policy system message
\* first, then the last non-policy system message of the input if there is
\* one, then the last 20 non-system messages of the input in their order
\* without the assistant messages classified as refusals
Windowed(input, out) ==
  LET k        == Cardinality({i \in 1..Len(out) : out[i].role = "system"})
      inStep   == SelectSeq(input, LAMBDA m : m.role = "system" /\ ~IsPolicy(m))
      inOthers == SelectSeq(input, LAMBDA m : m.role # "system")
      kept     == SelectSeq(LastOf(inOthers, 20),
                            LAMBDA m : ~(m.role = "assistant" /\ isRefusalLike(m.content)))
  IN  /\ out # << >> /\ IsPolicy(out[1])
      /\ Cardinality({i \in 1..Len(out) : IsPolicy(out[i])}) = 1
      /\ k \in {1, 2} /\ \A i \in 1..k : out[i].role = "system"
      /\ k = 2 <=> inStep # << >>
      /\ k = 2 => out[2] = inStep[Len(inStep)]
      /\ Len(out) - k <= 20
      /\ WithoutImage(SubSeq(out, k + 1, Len(out))) = kept

\* C33: for every message list of a request, the list of the completion
\* call starts with exactly one policy system message, then has at most one
\* other system message (the last non-policy system message of the input),
\* then at most 20 non-system messages: the last ones of the input in their
\* order, minus the assistant messages classified as refusals.
C33_ServerSideMessageWindow ==
  [][ \A parsed \in RequestLists, hasImage \in BOOLEAN :
        POST(parsed, hasImage) => Windowed(parsed, route'.upstream[1]) ]_vars

\* a request with several system messages and more than 20 other messages,
\* one of the last 20 a refusal: two system messages and 19 others are sent
C33_Witness ==
  /\ route.pc = "first"
  /\ Len(route.upstream[1]) = 21
  /\ route.upstream[1][2].content = <<"STEP2">>
  /\ route.upstream[1][3].content = <<"4">>

\* C34: Restore is not overwritten by a late reply.  When a dialogue call
\* ends in a restored session whose ledger for the call's key is not the
\* one the handler left there (the restore ran while the call was in
\* flight), s2Dialogs and s3Dialogs stay as the restore set them: no entry
\* and no turn of the earlier dialogue is added.
C34_RestoreNotOverwritten ==
  [][ \A o \in pending :
        ( /\ o.op \in DialogueOps /\ o \notin pending' /\ ~Reload
          /\ st.currentSessionId # 0
          /\ LedgerOf(st, o) # o.msgs )
        => st'.s2Dialogs = st.s2Dialogs /\ st'.s3Dialogs = st.s3Dialogs ]_vars

\* C35: Shown candidates stay excluded.  Every label shown in a candidate
\* list of the current work (the list still held in s3Candidates and the
\* lists replaced by regenerate) is in the exclusion list of every
\* candidate call started later, also one started from Step 2 after the
\* user went back from Step 3.
C35_ShownCandidatesStayExcluded ==
  [][ \A o \in pending' \ pending :
        o.op = "prepareStep3" =>
          SeqToSet(LabelsOf(st.s3Candidates)) \cup regens.shown \subseteq SeqToSet(o.excl) ]_vars

\* C36: hasThumb matches the blob store.  In every state with no operation
\* pending, every session of the list (and of the stored list) with
\* hasThumb = true has a thumbnail stored under its id.
C36_HasThumbMatchesBlobStore ==
  pending = {} =>
    /\ \A i \in 1..Len(sessions) : sessions[i].hasThumb => sessions[i].id \in idb
    /\ \A i \in 1..Len(ls) : ls[i].hasThumb => ls[i].id \in idb

\* C37: Displayed Explore thread equals the ledger.  Whenever a candidate is
\* chosen, the displayed thread s3Msgs is the ledger of s3Chosen.
C37_DisplayedThreadEqualsLedger ==
  st.s3Chosen # Null => st.s3Msgs = Get(st.s3Dialogs, st.s3Chosen)

\* C38: Session ids are unique.  No two sessions of the session list, and no
\* two of the stored list, have the same id.
C38_SessionIdsUnique ==
  /\ \A i, j \in 1..Len(sessions) : sessions[i].id = sessions[j].id => i = j
  /\ \A i, j \in 1..Len(ls) : ls[i].id = ls[j].id => i = j

\* two saves are pending at once and the list holds two sessions
C38_Witness ==
  /\ Cardinality({o \in pending : o.op \in {"saveGet", "savePut"}}) = 2
  /\ Len(sessions) = 2

\* the edges of the step other than the restore's
StepEdges ==
  {<<1, 2>>, <<2, 3>>, <<2, 4>>, <<3, 4>>, <<3, 2>>, <<4, 2>>, <<4, 3>>, <<4, 1>>}

\* C39: Allowed step edges.  While the page stays loaded, the step changes
\* only along 1-2, 2-3, 2-4, 3-4, 3-2, 4-2, 4-3, 4-1, or to 4 when a restore
\* ends; a generateFinal moves the step to 4 only when its synthesis call
\* returned, and a prepareStep3 moves it to 3 only with at least one parsed
\* candidate.
C39_AllowedStepEdges ==
  [][ ~Reload =>
        /\ st'.step # st.step =>
             \/ <<st.step, st'.step>> \in StepEdges
             \/ st'.step = 4 /\ \E o \in pending, r \in BOOLEAN : restoreSessionDone(o, r)
        /\ \A o \in pending :
             /\ (o.op = "generateFinal" /\ o \notin pending' /\ st.step # 4 /\ st'.step = 4)
                  => \E out \in FinalReplies : generateFinalReply(o, out)
             /\ (o.op = "prepareStep3" /\ o \notin pending' /\ st.step # 3 /\ st'.step = 3)
                  => st'.s3Candidates # << >> ]_vars

\* C40: A successful first reply is never lost.  When the first completion
\* call of a request has returned, the endpoint's response is a success
\* carrying a text: the retry text or the first reply.
C40_FirstReplyNeverLost ==
  (route.pc = "done" /\ route.replies # << >>) =>
    /\ route.response.status = 200
    /\ route.response.text \in {route.replies[i] : i \in 1..Len(route.replies)}

====
